---- MODULE Spec2Model ----
(***************************************************************************)
(* Model of the kufar-parser-bot polling pipeline: the persistence gateway *)
(* (DatabaseService), the site extractors as seen by the scheduler, and    *)
(* ParserScheduler (start / timer tick / runParsing / parseLink).          *)
(*                                                                         *)
(* One step of the model is one turn of the Node.js event loop: the code   *)
(* that runs between two awaits.  A per-link task's pc names the call it   *)
(* is awaiting; the action of that name is the call's completion followed  *)
(* by everything parseLink (and runParsing, when the batch ends) does up   *)
(* to the next await.                                                      *)
(*                                                                         *)
(* Beside the pipeline the module models the parts it rests on, each under *)
(* a specification of its own: BaseParser.fetchWithRetry, RateLimiter, the *)
(* bot's registration handlers, and the URL functions of the extractors.   *)
(***************************************************************************)
EXTENDS Integers, Sequences, FiniteSets, Bags, TLC

VARIABLES
  links,          \* links table: id -> row
  ads,            \* ads table: a bag of rows
  users,          \* users table: the set of user ids
  notified,       \* bag of [link_id, external_id]: sendNotification calls
  started,        \* ParserScheduler.intervalId is set
  isRunning,      \* ParserScheduler.isRunning
  inFlight,       \* number of runParsing invocations not yet returned
  cyclePc,        \* what runParsing awaits: idle, getActiveLinks, batch, sleep
  cycleLinks,     \* runParsing's local `links` (rows as loaded)
  batchStart,     \* runParsing's loop variable i
  task,           \* per link: the parseLink invocation of this cycle
  now,            \* number of cycles started so far (the clock)
  streak,         \* per link: consecutive failed extractions so far
  feeds,          \* per link: what its site may answer (the environment)
  maxCycles,      \* how many cycles the timer may start
  blocked,        \* the users who have blocked the bot (the environment)
  delivered,      \* bag of [link_id, external_id, at]: messages that arrived
  fetch,          \* one fetchWithRetry call: its locals and what it did
  requests,       \* RateLimiter.requests: user -> timestamps of admitted requests
  clock,          \* Date.now(), in ms
  allowedLog,     \* per user: every time isAllowed returned true
  handlersRun,    \* per user: updates dispatched to a handler, and refused
  userStates,     \* BotHandler.userStates
  pendingLinks,   \* BotHandler.pendingLinks
  trials,         \* handlers awaiting their trial parser.parseUrl(url)
  nextLinkId,     \* the links table's SERIAL
  trialOk,        \* [user, url] whose trial extraction resolved with records
  interactions,   \* number of updates the bot has received
  url,            \* a URL as `new URL(text)` parses it
  verdict,        \* what the validation functions returned for url
  rgn,            \* the region code KufarParser.parseUrl resolved for url
  page,           \* a fetched document: the markup's script and its JSON
  extracted,      \* what each extractor's transformation made of page
  merged,         \* a merged Kufar result set and the city slug of its URL
  filtered,       \* what the city filters made of merged
  peer,           \* parseLink of a second scheduler process on the same database
  shutdown        \* index.ts: whether shutdown() has stopped the scheduler, and
                  \* how many times the process has exited

\* The state of the parts outside the scheduler.
fetchVars == <<fetch>>
limiterVars == <<requests, clock, allowedLog, handlersRun>>
botVars == <<userStates, pendingLinks, trials, nextLinkId, trialOk, interactions>>
urlVars == <<url, verdict, rgn>>
pageVars == <<page, extracted, merged, filtered>>
peerVars == <<peer>>
mainVars == <<shutdown>>
offstage == <<fetchVars, limiterVars, botVars, urlVars, pageVars, peerVars, mainVars>>

schedVars == <<links, ads, users, notified, started, isRunning, inFlight, cyclePc,
               cycleLinks, batchStart, task, now, streak, feeds, maxCycles,
               blocked, delivered>>

vars == <<links, ads, users, notified, started, isRunning, inFlight, cyclePc,
          cycleLinks, batchStart, task, now, streak, feeds, maxCycles,
                 blocked, delivered, offstage>>

(***************************************************************************)
(* Program constants.                                                      *)
(***************************************************************************)
batchSize == 10
ErrorThreshold == 5
NotifyCap == 5
DefaultRetries == 3
maxRequests == 10
LinkLimit == 10
windowMs == 60000

(***************************************************************************)
(* Bounds of the model.                                                    *)
(***************************************************************************)
MaxCycles == 2
ErrCycles == 9
CapCycles == 1
NotifyCycles == 2
BatchLinks == 11
MaxRetries == 4
MaxRefused == 1
MaxInteractions == 5
MaxItems == 3
MaxExits == 1

\* The parts outside the scheduler before they are used.
FetchUnused ==
  fetch = [pc |-> "idle", retries |-> 0, i |-> 0, gets |-> <<>>, sleeps |-> <<>>,
           settled |-> [kind |-> "none", value |-> ""]]

LimiterUnused ==
  /\ requests = <<>>
  /\ clock = 0
  /\ allowedLog = <<>>
  /\ handlersRun = <<>>

BotUnused ==
  /\ userStates = <<>>
  /\ pendingLinks = <<>>
  /\ trials = {}
  /\ nextLinkId = 1
  /\ trialOk = {}
  /\ interactions = 0

UrlUnused ==
  /\ url = [hostname |-> "", pathname |-> "", gtsy |-> ""]
  /\ verdict = [done |-> FALSE, kufar |-> FALSE, onliner |-> FALSE,
                validator |-> [valid |-> FALSE, platform |-> "null"]]
  /\ rgn = "none"

PageUnused ==
  /\ page = [embedded |-> FALSE, data |-> [t |-> "undefined"]]
  /\ extracted = [done |-> FALSE]
  /\ merged = [city |-> "", items |-> <<>>]
  /\ filtered = [done |-> FALSE]

\* The process is in its first life and no signal has arrived.
NotShutDown == shutdown = [stopped |-> FALSE, exits |-> 0]

\* No second scheduler process has polled anything.
PeerUnused == peer = [pc |-> "none"]

NoRow == [link_id |-> 0, external_id |-> "", published_at |-> 0, ver |-> 0,
          created_at |-> 0]

(***************************************************************************)
(* Sequence helpers.                                                       *)
(***************************************************************************)
Min(a, b) == IF a < b THEN a ELSE b

Range(s) == {s[i] : i \in 1..Len(s)}

RECURSIVE SetToSeqAsc(_)
SetToSeqAsc(S) ==
  IF S = {} THEN <<>>
  ELSE LET m == CHOOSE x \in S : \A y \in S : x <= y
       IN <<m>> \o SetToSeqAsc(S \ {m})

\* Array.prototype.slice(from, to) with 0-based from, exclusive to.
Slice(s, from, to) == SubSeq(s, from + 1, Min(to, Len(s)))

\* Array.prototype.slice(-n): the last n elements.
SliceLast(s, n) == SubSeq(s, IF Len(s) > n THEN Len(s) - n + 1 ELSE 1, Len(s))

(***************************************************************************)
(* DatabaseService: links.                                                 *)
(***************************************************************************)
LinkRow(tbl, id) == [id |-> id] @@ tbl[id]

\* The query without its WHERE clause: every row of the table.
getActiveLinksAll(tbl) ==
  LET ids == SetToSeqAsc(DOMAIN tbl)
  IN [i \in 1..Len(ids) |-> LinkRow(tbl, ids[i])]

\* SELECT * FROM links WHERE is_active = true (rows taken in id order).
getActiveLinks(tbl) ==
  LET ids == SetToSeqAsc({id \in DOMAIN tbl : tbl[id].is_active})
  IN [i \in 1..Len(ids) |-> LinkRow(tbl, ids[i])]

\* SELECT * FROM links WHERE user_id = $1
getUserLinks(tbl, userId) ==
  {LinkRow(tbl, id) : id \in {i \in DOMAIN tbl : tbl[i].user_id = userId}}

\* incrementErrorCount whose UPDATE has no WHERE clause.
incrementErrorCountAll(tbl, id) ==
  [i \in DOMAIN tbl |-> [tbl[i] EXCEPT !.error_count = @ + 1]]

\* UPDATE links SET error_count = error_count + 1 WHERE id = $1
incrementErrorCount(tbl, id) ==
  IF id \in DOMAIN tbl THEN [tbl EXCEPT ![id].error_count = @ + 1] ELSE tbl

\* markLinkInactive whose UPDATE matches no row.
markLinkInactiveNoRow(tbl, id) == tbl

\* UPDATE links SET is_active = false WHERE id = $1
markLinkInactive(tbl, id) ==
  IF id \in DOMAIN tbl THEN [tbl EXCEPT ![id].is_active = FALSE] ELSE tbl

updateLastParsed(tbl, id, t) ==
  IF id \in DOMAIN tbl THEN [tbl EXCEPT ![id].last_parsed_at = t] ELSE tbl

\* resetErrorCount whose UPDATE matches no row.
resetErrorCountNoRow(tbl, id) == tbl

resetErrorCount(tbl, id) ==
  IF id \in DOMAIN tbl THEN [tbl EXCEPT ![id].error_count = 0] ELSE tbl

getUserById(us, userId) == userId \in us

(***************************************************************************)
(* DatabaseService: ads.                                                   *)
(***************************************************************************)
\* created_at: DEFAULT CURRENT_TIMESTAMP, the cycle of the insert.
AdRow(linkId, adData) ==
  [link_id |-> linkId, external_id |-> adData.external_id,
   published_at |-> adData.published_at, ver |-> adData.ver, created_at |-> now]

\* The unique index idx_ads_link_external on ads(link_id, external_id).
Conflicts(tbl, linkId, externalId) ==
  \E r \in BagToSet(tbl) : r.link_id = linkId /\ r.external_id = externalId

\* createAd as a plain INSERT ... RETURNING *, without the conflict clause.
createAdPlainInsert(tbl, linkId, adData) ==
  [ads |-> tbl (+) SetToBag({AdRow(linkId, adData)}),
   row |-> AdRow(linkId, adData)]

\* INSERT ... ON CONFLICT (link_id, external_id) DO NOTHING RETURNING *
\* The result is the table afterwards and the returned row (NoRow: none).
createAd(tbl, linkId, adData) ==
  IF Conflicts(tbl, linkId, adData.external_id)
  THEN [ads |-> tbl, row |-> NoRow]
  ELSE [ads |-> tbl (+) SetToBag({AdRow(linkId, adData)}),
        row |-> AdRow(linkId, adData)]

\* SELECT * FROM ads WHERE external_id = $1; rows[0] || null
getAdByExternalId(tbl, externalId) ==
  IF \E r \in BagToSet(tbl) : r.external_id = externalId
  THEN CHOOSE r \in BagToSet(tbl) : r.external_id = externalId
  ELSE NoRow

isNewAd(tbl, externalId) == getAdByExternalId(tbl, externalId) = NoRow

isNewAdForLink(tbl, linkId, externalId) ==
  ~ \E r \in BagToSet(tbl) : r.link_id = linkId /\ r.external_id = externalId

(***************************************************************************)
(* Extractors, as the scheduler sees them.  A site's answer to one         *)
(* extraction is [kind, ads]: "net" (every request fails), "bad" (the      *)
(* listing container is present but is not a list) or "ok" (a listing).    *)
(***************************************************************************)
NetError == [kind |-> "net", ads |-> <<>>]
BadShape == [kind |-> "bad", ads |-> <<>>]
Listing(recs) == [kind |-> "ok", ads |-> recs]

Rec(e, p, v) == [external_id |-> e, published_at |-> p, ver |-> v]

\* ParserFactory.parsers
getParser(platform) == IF platform \in {"kufar", "onliner"} THEN platform ELSE "null"

\* Requests an extractor has open while parseUrl is awaited: KufarParser
\* queries two endpoints inside one Promise.all, OnlinerParser one URL.
RequestsOpen(platform) ==
  IF platform = "kufar" THEN 2 ELSE IF platform = "onliner" THEN 1 ELSE 0

\* KufarParser: uniqueAdsMap.set(ad.ad_id, ad) over the merged items; a Map
\* keeps the position of a key's first insertion and its last value.
RECURSIVE UniqueAds(_)
UniqueAds(s) ==
  IF s = <<>> THEN <<>>
  ELSE LET front == UniqueAds(SubSeq(s, 1, Len(s) - 1))
           x == s[Len(s)]
       IN IF \E i \in 1..Len(front) : front[i].external_id = x.external_id
          THEN [i \in 1..Len(front) |->
                  IF front[i].external_id = x.external_id THEN x ELSE front[i]]
          ELSE Append(front, x)

\* parser.parseUrl: [ok |-> resolved?, ads |-> the records it resolves with].
KufarParseUrl(answer) ==
  IF answer.kind = "bad" THEN [ok |-> FALSE, ads |-> <<>>]
  ELSE IF answer.kind = "net" THEN [ok |-> TRUE, ads |-> <<>>]
  ELSE [ok |-> TRUE, ads |-> UniqueAds(answer.ads)]

\* OnlinerParser rejecting an empty listing as if it were an error.
OnlinerParseUrlEmptyThrows(answer) ==
  IF answer.kind = "ok" /\ answer.ads # <<>> THEN [ok |-> TRUE, ads |-> answer.ads]
  ELSE [ok |-> FALSE, ads |-> <<>>]

OnlinerParseUrl(answer) ==
  IF answer.kind = "ok" THEN [ok |-> TRUE, ads |-> answer.ads]
  ELSE [ok |-> FALSE, ads |-> <<>>]

parseUrl(platform, answer) ==
  IF platform = "kufar" THEN KufarParseUrl(answer) ELSE OnlinerParseUrl(answer)

(***************************************************************************)
(* parseLink: the notification selection.                                  *)
(***************************************************************************)
\* a.published_at ? new Date(a.published_at).getTime() : 0
SortKey(row) == row.published_at

\* The list left in the order of insertion.
SortByPublishedSkipped(s) == s

\* Array.prototype.sort with (a, b) => dateA - dateB: stable, ascending.
RECURSIVE SortByPublished(_)
SortByPublished(s) ==
  IF s = <<>> THEN <<>>
  ELSE LET front == SortByPublished(SubSeq(s, 1, Len(s) - 1))
           x == s[Len(s)]
           p == Cardinality({i \in 1..Len(front) : SortKey(front[i]) <= SortKey(x)})
       IN SubSeq(front, 1, p) \o <<x>> \o SubSeq(front, p + 1, Len(front))

\* The cap taken from the front of the sorted list (the oldest records).
AdsToNotifyOldest(newAds) == Slice(SortByPublished(newAds), 0, NotifyCap)

AdsToNotify(newAds) == SliceLast(SortByPublished(newAds), NotifyCap)

(***************************************************************************)
(* parseLink: one invocation per link and cycle.                           *)
(***************************************************************************)
NoLink == [id |-> 0, user_id |-> 0, platform |-> "", is_active |-> FALSE,
           error_count |-> 0, last_parsed_at |-> 0]

\* The value of parseLink's `ad` before createAd was ever awaited.
NotCalled == [link_id |-> 0, external_id |-> "-", published_at |-> 0, ver |-> 0,
              created_at |-> 0]

\* pc: the awaited call; link, ads, newAds, adsToNotify, ad: parseLink's
\* locals (k, n: the positions of its two loops); answer, result: what the
\* site answered and how parseUrl settled (for the record).
IdleTask == [pc |-> "none", link |-> NoLink, ads |-> <<>>, k |-> 0,
             newAds |-> <<>>, ad |-> NotCalled, adsToNotify |-> <<>>, n |-> 0,
             answer |-> [kind |-> "none", ads |-> <<>>], result |-> "none"]

\* parseLink up to its first await: no parser -> return, else parseUrl.
StartTaskCountsMissingParser(link) ==
  IF getParser(link.platform) = "null"
  THEN [IdleTask EXCEPT !.pc = "incrementErrorCount", !.link = link]
  ELSE [IdleTask EXCEPT !.pc = "parseUrl", !.link = link]

StartTask(link) ==
  IF getParser(link.platform) = "null"
  THEN [IdleTask EXCEPT !.pc = "done", !.link = link, !.result = "skipped"]
  ELSE [IdleTask EXCEPT !.pc = "parseUrl", !.link = link]

\* After the for-loop over ads: notify when newAds is not empty.
AfterLoop(t) ==
  IF Len(t.newAds) > 0 THEN [t EXCEPT !.pc = "getUserById"]
  ELSE [t EXCEPT !.pc = "done"]

\* for (const adData of ads): the k-th iteration awaits isNewAd.
EnterLoop(t, k) ==
  IF k <= Len(t.ads) THEN [t EXCEPT !.pc = "isNewAd", !.k = k]
  ELSE AfterLoop([t EXCEPT !.k = k])

\* The threshold test written with > instead of >=.
ShouldDeactivateAbove(rows, id) ==
  \E r \in rows : r.id = id /\ r.error_count > ErrorThreshold

\* currentLink && currentLink.error_count >= 5
ShouldDeactivate(rows, id) ==
  \E r \in rows : r.id = id /\ r.error_count >= ErrorThreshold

(***************************************************************************)
(* runParsing.                                                             *)
(***************************************************************************)
\* The slice taken one position too early: links.slice(i - 1, i + batchSize).
BatchIdsOverlapping(lks, i) ==
  {lks[j].id : j \in (IF i = 0 THEN 1 ELSE i)..Min(i + batchSize, Len(lks))}

\* links.slice(i, i + batchSize)
BatchIds(lks, i) == {lks[j].id : j \in (i + 1)..Min(i + batchSize, Len(lks))}

\* A finally block that leaves the flag set.
FinishKeepsRunning ==
  /\ cyclePc' = "idle"
  /\ isRunning' = isRunning
  /\ inFlight' = inFlight - 1

\* The finally block.
Finish ==
  /\ cyclePc' = "idle"
  /\ isRunning' = FALSE
  /\ inFlight' = inFlight - 1

\* The batch loop pausing after every batch, the last one too.
AfterBatchAlwaysPauses(lks, i) ==
  cyclePc' = "sleep" /\ UNCHANGED <<isRunning, inFlight>>

\* Promise.all of the batch at i has resolved: pause, or end the cycle.
AfterBatch(lks, i) ==
  IF i + batchSize < Len(lks)
  THEN cyclePc' = "sleep" /\ UNCHANGED <<isRunning, inFlight>>
  ELSE Finish

\* A per-link task moved to tk[l]; when that ends the batch that runParsing
\* awaits, runParsing goes on.
Continue(tk) ==
  /\ task' = tk
  /\ UNCHANGED <<cycleLinks, batchStart>>
  /\ IF cyclePc = "batch" /\ \A id \in BatchIds(cycleLinks, batchStart) : tk[id].pc = "done"
     THEN AfterBatch(cycleLinks, batchStart)
     ELSE UNCHANGED <<cyclePc, isRunning, inFlight>>

\* batch.map(link => this.parseLink(link)) for the batch starting at i.
RunBatch(lks, i, tk0) ==
  LET row(id) == CHOOSE r \in Range(lks) : r.id = id
      tk == [id \in DOMAIN tk0 |->
               IF id \in BatchIds(lks, i) THEN StartTask(row(id)) ELSE tk0[id]]
  IN /\ task' = tk
     /\ cycleLinks' = lks
     /\ batchStart' = i
     /\ IF \A id \in BatchIds(lks, i) : tk[id].pc = "done"
        THEN AfterBatch(lks, i)
        ELSE cyclePc' = "batch" /\ UNCHANGED <<isRunning, inFlight>>

\* runParsing up to its first await.
BeginRunParsing ==
  /\ isRunning' = TRUE
  /\ inFlight' = inFlight + 1
  /\ cyclePc' = "getActiveLinks"
  /\ now' = now + 1
  /\ UNCHANGED <<links, ads, users, notified, cycleLinks, batchStart, task,
                 streak, feeds, maxCycles,
                 blocked, delivered, offstage>>

(***************************************************************************)
(* ParserScheduler.start and the interval callback.                        *)
(***************************************************************************)
\* start(): this.runParsing() at once, then setInterval.
Start ==
  /\ ~started
  /\ started' = TRUE
  /\ BeginRunParsing

\* The interval callback without its isRunning guard.
TickUnguarded ==
  /\ started
  /\ now < maxCycles
  /\ started' = started /\ BeginRunParsing

\* The interval callback still firing after clearInterval.
TickIgnoresStop ==
  /\ started
  /\ isRunning \/ now < maxCycles
  /\ IF isRunning
     THEN UNCHANGED vars
     ELSE started' = started /\ BeginRunParsing

\* The interval callback (it fires until stop() has cleared the interval):
\* skip (a warning only) while a cycle is running.
Tick ==
  /\ started /\ ~shutdown.stopped
  /\ isRunning \/ now < maxCycles
  /\ IF isRunning
     THEN UNCHANGED vars
     ELSE started' = started /\ BeginRunParsing

\* db.getActiveLinks() resolves; the batch loop begins.
GetActiveLinks ==
  /\ cyclePc = "getActiveLinks"
  /\ LET lks == getActiveLinks(links)
         tk0 == [id \in DOMAIN task |-> IdleTask]
     IN IF Len(lks) = 0
        THEN /\ Finish
             /\ task' = tk0
             /\ cycleLinks' = lks
             /\ batchStart' = 0
        ELSE RunBatch(lks, 0, tk0)
  /\ UNCHANGED <<links, ads, users, notified, started, now, streak, feeds, maxCycles,
                 blocked, delivered, offstage>>

\* runParsing without try/finally: the rejection of db.getActiveLinks()
\* leaves the method at once and isRunning stays set.
GetActiveLinksFailsUncaught ==
  /\ cyclePc = "getActiveLinks"
  /\ cyclePc' = "idle"
  /\ inFlight' = inFlight - 1
  /\ UNCHANGED <<links, ads, users, notified, started, isRunning, cycleLinks,
                 batchStart, task, now, streak, feeds, maxCycles,
                 blocked, delivered, offstage>>

\* db.getActiveLinks() rejects (the database is unavailable): runParsing's
\* catch logs the error and its finally clears isRunning.
GetActiveLinksFails ==
  /\ cyclePc = "getActiveLinks"
  /\ Finish
  /\ UNCHANGED <<links, ads, users, notified, started, cycleLinks, batchStart,
                 task, now, streak, feeds, maxCycles,
                 blocked, delivered, offstage>>

\* sleep(1000) between two batches resolves; the next batch is dispatched.
SleepBetweenBatches ==
  /\ cyclePc = "sleep"
  /\ RunBatch(cycleLinks, batchStart + batchSize, task)
  /\ UNCHANGED <<links, ads, users, notified, started, now, streak, feeds, maxCycles,
                 blocked, delivered, offstage>>

(***************************************************************************)
(* parseLink, one action per await.                                        *)
(***************************************************************************)
\* parseLink without its catch: a rejected parseUrl rejects Promise.all and
\* runParsing goes to its own catch and finally.
ParseUrlUncaught(l) ==
  /\ task[l].pc = "parseUrl"
  /\ \E answer \in feeds[l] :
       LET r == parseUrl(task[l].link.platform, answer)
       IN IF r.ok
          THEN /\ Continue([task EXCEPT ![l].pc = "updateLastParsed",
                                        ![l].ads = r.ads, ![l].result = "ok",
                                        ![l].answer = answer])
               /\ streak' = [streak EXCEPT ![l] = 0]
          ELSE /\ task' = [task EXCEPT ![l].pc = "done", ![l].result = "failed",
                                       ![l].answer = answer]
               /\ IF cyclePc = "batch" THEN Finish
                  ELSE UNCHANGED <<cyclePc, isRunning, inFlight>>
               /\ UNCHANGED <<cycleLinks, batchStart>>
               /\ streak' = [streak EXCEPT ![l] = @ + 1]
  /\ UNCHANGED <<links, ads, users, notified, started, now, feeds, maxCycles,
                 blocked, delivered, offstage>>

\* parser.parseUrl(link.url) settles with one of the site's answers.
ParseUrl(l) ==
  /\ task[l].pc = "parseUrl"
  /\ \E answer \in feeds[l] :
       LET r == parseUrl(task[l].link.platform, answer)
       IN IF r.ok
          THEN /\ Continue([task EXCEPT ![l].pc = "updateLastParsed",
                                        ![l].ads = r.ads, ![l].result = "ok",
                                        ![l].answer = answer])
               /\ streak' = [streak EXCEPT ![l] = 0]
          ELSE /\ Continue([task EXCEPT ![l].pc = "incrementErrorCount",
                                        ![l].result = "failed",
                                        ![l].answer = answer])
               /\ streak' = [streak EXCEPT ![l] = @ + 1]
  /\ UNCHANGED <<links, ads, users, notified, started, now, feeds, maxCycles,
                 blocked, delivered, offstage>>

UpdateLastParsed(l) ==
  /\ task[l].pc = "updateLastParsed"
  /\ links' = updateLastParsed(links, l, now)
  /\ LET t == task[l]
     IN Continue([task EXCEPT ![l] =
          IF t.link.error_count > 0
          THEN [t EXCEPT !.pc = "resetErrorCount"]
          ELSE EnterLoop(t, 1)])
  /\ UNCHANGED <<ads, users, notified, started, now, streak, feeds, maxCycles,
                 blocked, delivered, offstage>>

ResetErrorCount(l) ==
  /\ task[l].pc = "resetErrorCount"
  /\ links' = resetErrorCount(links, l)
  /\ Continue([task EXCEPT ![l] = EnterLoop(task[l], 1)])
  /\ UNCHANGED <<ads, users, notified, started, now, streak, feeds, maxCycles,
                 blocked, delivered, offstage>>

\* The loop body without the persistence round trip: every extracted record
\* counts as new.
IsNewAdUnchecked(l) ==
  /\ task[l].pc = "isNewAd"
  /\ LET t == task[l]
         row == AdRow(t.link.id, t.ads[t.k])
     IN Continue([task EXCEPT ![l] =
          EnterLoop([t EXCEPT !.newAds = Append(t.newAds, row)], t.k + 1)])
  /\ UNCHANGED <<links, ads, users, notified, started, now, streak, feeds, maxCycles,
                 blocked, delivered, offstage>>

\* The loop body announcing a known record again: the stored row is pushed
\* to newAds.
IsNewAdAnnouncesKnown(l) ==
  /\ task[l].pc = "isNewAd"
  /\ LET t == task[l]
     IN Continue([task EXCEPT ![l] =
          IF isNewAd(ads, t.ads[t.k].external_id)
          THEN [t EXCEPT !.pc = "createAd"]
          ELSE EnterLoop([t EXCEPT !.newAds =
                            Append(t.newAds, getAdByExternalId(ads, t.ads[t.k].external_id))],
                         t.k + 1)])
  /\ UNCHANGED <<links, ads, users, notified, started, now, streak, feeds, maxCycles,
                 blocked, delivered, offstage>>

IsNewAd(l) ==
  /\ task[l].pc = "isNewAd"
  /\ LET t == task[l]
     IN Continue([task EXCEPT ![l] =
          IF isNewAd(ads, t.ads[t.k].external_id)
          THEN [t EXCEPT !.pc = "createAd"]
          ELSE EnterLoop(t, t.k + 1)])
  /\ UNCHANGED <<links, ads, users, notified, started, now, streak, feeds, maxCycles,
                 blocked, delivered, offstage>>

CreateAd(l) ==
  /\ task[l].pc = "createAd"
  /\ LET t == task[l]
         r == createAd(ads, t.link.id, t.ads[t.k])
         pushed == IF r.row # NoRow THEN Append(t.newAds, r.row) ELSE t.newAds
     IN /\ ads' = r.ads
        /\ Continue([task EXCEPT ![l] =
             EnterLoop([t EXCEPT !.newAds = pushed, !.ad = r.row], t.k + 1)])
  /\ UNCHANGED <<links, users, notified, started, now, streak, feeds, maxCycles,
                 blocked, delivered, offstage>>

GetUserById(l) ==
  /\ task[l].pc = "getUserById"
  /\ LET t == task[l]
     IN Continue([task EXCEPT ![l] =
          IF getUserById(users, t.link.user_id)
          THEN [t EXCEPT !.pc = "sendNotification",
                         !.adsToNotify = AdsToNotify(t.newAds), !.n = 1]
          ELSE [t EXCEPT !.pc = "done"]])
  /\ UNCHANGED <<links, ads, users, notified, started, now, streak, feeds, maxCycles,
                 blocked, delivered, offstage>>

\* BotHandler.sendNotification: bot.sendMessage fails with 403 for a user
\* who has blocked the bot; the method catches every error and resolves.
\* The value: whether the message arrived.
sendNotification(blk, telegramId) == telegramId \notin blk

\* The notification loop without sendNotification's catch and without its
\* own: a failed delivery is thrown to parseLink's catch block.
SendNotificationUncaught(l) ==
  /\ task[l].pc = "sendNotification"
  /\ LET ad == task[l].adsToNotify[task[l].n]
         sent == sendNotification(blocked, task[l].link.user_id)
     IN /\ notified' = notified (+) SetToBag({[link_id |-> ad.link_id,
                                               external_id |-> ad.external_id]})
        /\ delivered' = IF sent
                        THEN delivered (+) SetToBag({[link_id |-> ad.link_id,
                                                      external_id |-> ad.external_id,
                                                      at |-> now]})
                        ELSE delivered
        /\ Continue([task EXCEPT ![l].pc =
                       IF sent THEN "sleep" ELSE "incrementErrorCount"])
  /\ UNCHANGED <<links, ads, users, started, now, streak, feeds, maxCycles,
                 blocked, offstage>>

\* bot.sendNotification(user.telegram_id, ad) settles; then sleep(3000).
SendNotification(l) ==
  /\ task[l].pc = "sendNotification"
  /\ LET ad == task[l].adsToNotify[task[l].n]
         sent == sendNotification(blocked, task[l].link.user_id)
     IN /\ notified' = notified (+) SetToBag({[link_id |-> ad.link_id,
                                               external_id |-> ad.external_id]})
        /\ delivered' = IF sent
                        THEN delivered (+) SetToBag({[link_id |-> ad.link_id,
                                                      external_id |-> ad.external_id,
                                                      at |-> now]})
                        ELSE delivered
        /\ Continue([task EXCEPT ![l].pc = "sleep"])
  /\ UNCHANGED <<links, ads, users, started, now, streak, feeds, maxCycles,
                 blocked, offstage>>

Sleep(l) ==
  /\ task[l].pc = "sleep"
  /\ LET t == task[l]
     IN Continue([task EXCEPT ![l] =
          IF t.n + 1 <= Len(t.adsToNotify)
          THEN [t EXCEPT !.pc = "sendNotification", !.n = t.n + 1]
          ELSE [t EXCEPT !.pc = "done", !.n = t.n + 1]])
  /\ UNCHANGED <<links, ads, users, notified, started, now, streak, feeds, maxCycles,
                 blocked, delivered, offstage>>

IncrementErrorCount(l) ==
  /\ task[l].pc = "incrementErrorCount"
  /\ links' = incrementErrorCount(links, l)
  /\ Continue([task EXCEPT ![l].pc = "getUserLinks"])
  /\ UNCHANGED <<ads, users, notified, started, now, streak, feeds, maxCycles,
                 blocked, delivered, offstage>>

GetUserLinks(l) ==
  /\ task[l].pc = "getUserLinks"
  /\ Continue([task EXCEPT ![l].pc =
       IF ShouldDeactivate(getUserLinks(links, task[l].link.user_id), l)
       THEN "markLinkInactive" ELSE "done"])
  /\ UNCHANGED <<links, ads, users, notified, started, now, streak, feeds, maxCycles,
                 blocked, delivered, offstage>>

MarkLinkInactive(l) ==
  /\ task[l].pc = "markLinkInactive"
  /\ links' = markLinkInactive(links, l)
  /\ Continue([task EXCEPT ![l].pc = "done"])
  /\ UNCHANGED <<ads, users, notified, started, now, streak, feeds, maxCycles,
                 blocked, delivered, offstage>>

(***************************************************************************)
(* Specifications.  They share the actions and differ in the deployment    *)
(* they start from: the links registered and what their sites answer.      *)
(***************************************************************************)
Link(u, p, c) == [user_id |-> u, platform |-> p, is_active |-> TRUE,
                  error_count |-> c, last_parsed_at |-> 0]

\* The scheduler after its constructor, over the given tables; blk: the
\* users who have blocked the bot.
InitOver(ls, us, blk, fs, mc) ==
  /\ links = ls
  /\ ads = EmptyBag
  /\ users = us
  /\ notified = EmptyBag
  /\ started = FALSE
  /\ isRunning = FALSE
  /\ inFlight = 0
  /\ cyclePc = "idle"
  /\ cycleLinks = <<>>
  /\ batchStart = 0
  /\ task = [id \in DOMAIN ls |-> IdleTask]
  /\ now = 0
  /\ streak = [id \in DOMAIN ls |-> ls[id].error_count]
  /\ feeds = fs
  /\ maxCycles = mc
  /\ blocked = blk
  /\ delivered = EmptyBag
  /\ FetchUnused /\ LimiterUnused /\ BotUnused /\ UrlUnused /\ PageUnused /\ PeerUnused /\ NotShutDown

\* Every link's owner is registered and nobody has blocked the bot.
InitWith(ls, fs, mc) ==
  InitOver(ls, {ls[id].user_id : id \in DOMAIN ls}, {}, fs, mc)

\* Two links of two users whose searches on one site overlap: item "a" is
\* listed for both, it may be listed twice in one page, and its content
\* (ver) may change between extractions.  An onliner record carries no
\* publication time (0).
Init ==
  \E c \in {0, ErrorThreshold - 1} :
    InitWith(
      (1 :> Link(1, "onliner", c)) @@ (2 :> Link(2, "onliner", 0)),
      (1 :> {NetError, Listing(<<Rec("a", 0, 1), Rec("a", 0, 1)>>),
             Listing(<<Rec("b", 0, 1), Rec("a", 0, 2)>>)})
      @@ (2 :> {BadShape, Listing(<<Rec("a", 0, 1)>>),
                Listing(<<Rec("c", 0, 1), Rec("c", 0, 2)>>)}),
      MaxCycles)

Next ==
  \/ Start
  \/ Tick
  \/ GetActiveLinks
  \/ \E l \in DOMAIN links : ParseUrl(l)
  \/ \E l \in DOMAIN links : UpdateLastParsed(l)
  \/ \E l \in DOMAIN links : ResetErrorCount(l)
  \/ \E l \in DOMAIN links : IsNewAd(l)
  \/ \E l \in DOMAIN links : CreateAd(l)
  \/ \E l \in DOMAIN links : GetUserById(l)
  \/ \E l \in DOMAIN links : SendNotification(l)
  \/ \E l \in DOMAIN links : Sleep(l)
  \/ \E l \in DOMAIN links : IncrementErrorCount(l)
  \/ \E l \in DOMAIN links : GetUserLinks(l)
  \/ \E l \in DOMAIN links : MarkLinkInactive(l)

Spec == Init /\ [][Next]_vars

(***************************************************************************)
(* The same deployment with a second writer on the ads table (another      *)
(* process of the bot inserting what the same sites list).                 *)
(***************************************************************************)
OtherWriterCreateAd ==
  /\ \E l \in DOMAIN links : \E answer \in feeds[l] : \E i \in 1..Len(answer.ads) :
       ads' = createAd(ads, l, answer.ads[i]).ads
  /\ UNCHANGED <<links, users, notified, started, isRunning, inFlight, cyclePc,
                 cycleLinks, batchStart, task, now, streak, feeds, maxCycles,
                 blocked, delivered, offstage>>

NextShared == Next \/ OtherWriterCreateAd

SpecShared == Init /\ [][NextShared]_vars

(***************************************************************************)
(* The same deployment over a database that may be unavailable when a      *)
(* cycle loads its links.                                                  *)
(***************************************************************************)
NextDb == Next \/ GetActiveLinksFails

SpecDb == Init /\ [][NextDb]_vars

\* The same, with every awaited call settling in the end: whenever a step of
\* the scheduler is possible, one is taken.
SpecLive == Init /\ [][NextDb]_vars /\ WF_vars(NextDb)

(***************************************************************************)
(* Failure accounting: two links polled for many cycles by sites that fail *)
(* in both ways, answer with an empty listing, or list one item.           *)
(***************************************************************************)
InitErr ==
  InitWith(
    (1 :> Link(1, "onliner", 0)) @@ (2 :> Link(1, "kufar", 0)),
    (1 :> {NetError, BadShape, Listing(<<>>), Listing(<<Rec("a", 0, 1)>>)})
    @@ (2 :> {NetError, BadShape, Listing(<<>>)}),
    ErrCycles)

SpecErr == InitErr /\ [][Next]_vars

(***************************************************************************)
(* The notification cap: a kufar link whose search lists seven items at    *)
(* once (publication times 0..5, 0: none), one of them also listed for a   *)
(* second link.                                                            *)
(***************************************************************************)
LongListing ==
  <<Rec("e1", 3, 1), Rec("e2", 0, 1), Rec("e3", 5, 1), Rec("e4", 3, 1),
    Rec("e5", 1, 1), Rec("e6", 4, 1), Rec("e7", 2, 1)>>

InitCap ==
  \E c \in {0, ErrorThreshold - 1} :
    InitWith(
      (1 :> Link(1, "kufar", c)) @@ (2 :> Link(2, "kufar", 0)),
      (1 :> {BadShape, Listing(LongListing), Listing(SubSeq(LongListing, 1, 2))})
      @@ (2 :> {Listing(<<Rec("e5", 1, 1)>>)}),
      CapCycles)

SpecCap == InitCap /\ [][Next]_vars

(***************************************************************************)
(* Batches: more links than one batch holds.  Link 1 may fail, link 2 and  *)
(* the links after the first batch list one item each, links 3..7 answer   *)
(* with empty listings, links 8..10 are rows of a platform without parser. *)
(***************************************************************************)
BatchLink(id, c) ==
  IF id = 1 THEN Link(1, "onliner", c)
  ELSE IF id <= 7 THEN Link(id, "kufar", 0)
  ELSE IF id <= batchSize THEN Link(id, "realt", 0)
  ELSE Link(id, "onliner", 0)

BatchFeed(id) ==
  IF id = 1 THEN {NetError, Listing(<<Rec("a", 0, 1)>>)}
  ELSE IF id = 2 THEN {Listing(<<Rec("b", 1, 1)>>)}
  ELSE IF id <= batchSize THEN {Listing(<<>>)}
  ELSE {Listing(<<Rec(ToString(id), 0, 1)>>)}

InitBatch ==
  \E c \in {0, ErrorThreshold - 1} :
    InitWith([id \in 1..BatchLinks |-> BatchLink(id, c)],
             [id \in 1..BatchLinks |-> BatchFeed(id)],
             1)

NextBatch == Next \/ SleepBetweenBatches

SpecBatch == InitBatch /\ [][NextBatch]_vars

(***************************************************************************)
(* The same links, of which none, exactly one batch or one more than a     *)
(* batch are registered.                                                   *)
(***************************************************************************)
InitSlices ==
  \E n \in {0, batchSize, BatchLinks} : \E c \in {0, ErrorThreshold - 1} :
    InitWith([id \in 1..n |-> BatchLink(id, c)],
             [id \in 1..n |-> BatchFeed(id)],
             1)

SpecSlices == InitSlices /\ [][NextBatch]_vars

(***************************************************************************)
(* Delivery: a kufar link whose search lists six items at once, one more   *)
(* than a cycle announces, and an onliner link; the owner of the first may *)
(* have blocked the bot.                                                   *)
(***************************************************************************)
InitNotify ==
  \E blk \in SUBSET {1} : \E c \in {0, ErrorThreshold - 1} :
    InitOver(
      (1 :> Link(1, "kufar", 0)) @@ (2 :> Link(2, "onliner", c)),
      {1, 2},
      blk,
      (1 :> {Listing(SubSeq(LongListing, 1, NotifyCap + 1))})
      @@ (2 :> {NetError, Listing(<<Rec("x", 0, 1)>>)}),
      NotifyCycles)

SpecNotify == InitNotify /\ [][Next]_vars

\* The process ends (a crash, a deployment) and is started again: what the
\* scheduler and its running tasks held in memory is gone, the tables stay.
ProcessRestarts ==
  /\ started
  /\ now < maxCycles
  /\ started' = FALSE
  /\ isRunning' = FALSE
  /\ inFlight' = 0
  /\ cyclePc' = "idle"
  /\ cycleLinks' = <<>>
  /\ batchStart' = 0
  /\ task' = [id \in DOMAIN task |-> IdleTask]
  /\ UNCHANGED <<links, ads, users, notified, now, streak, feeds, maxCycles,
                 blocked, delivered, offstage>>

NextRestart == Next \/ ProcessRestarts

\* The links of InitNotify and a third one, of user 2, on a platform the
\* links table accepts (check_platform) and no extractor is registered for.
InitSkipped ==
  \E blk \in SUBSET {1} : \E c \in {0, ErrorThreshold - 1} :
    InitOver(
      (1 :> Link(1, "kufar", 0)) @@ (2 :> Link(2, "onliner", c))
      @@ (3 :> Link(2, "realt", 0)),
      {1, 2},
      blk,
      (1 :> {Listing(SubSeq(LongListing, 1, NotifyCap + 1))})
      @@ (2 :> {NetError, Listing(<<Rec("x", 0, 1)>>)})
      @@ (3 :> {NetError, Listing(<<Rec("z", 0, 1)>>)}),
      NotifyCycles)

SpecSkipped == InitSkipped /\ [][Next]_vars

SpecRestart == InitNotify /\ [][NextRestart]_vars

(***************************************************************************)
(* Shutdown: a signal makes index.ts call scheduler.stop(), close the      *)
(* database and exit; the process is started again later.                  *)
(***************************************************************************)
\* shutdown() up to `await db.close()`: stop() clears the interval; a cycle
\* in flight goes on.
Stop ==
  /\ started /\ ~shutdown.stopped
  /\ shutdown.exits < MaxExits
  /\ shutdown' = [shutdown EXCEPT !.stopped = TRUE]
  /\ UNCHANGED <<schedVars, fetchVars, limiterVars, botVars, urlVars, pageVars,
                 peerVars>>

\* process.exit(0): what the scheduler and its tasks held in memory is gone,
\* the tables stay; the next process begins with start().
ProcessExits ==
  /\ shutdown.stopped
  /\ shutdown' = [stopped |-> FALSE, exits |-> shutdown.exits + 1]
  /\ started' = FALSE
  /\ isRunning' = FALSE
  /\ inFlight' = 0
  /\ cyclePc' = "idle"
  /\ cycleLinks' = <<>>
  /\ batchStart' = 0
  /\ task' = [id \in DOMAIN task |-> IdleTask]
  /\ UNCHANGED <<links, ads, users, notified, now, streak, feeds, maxCycles,
                 blocked, delivered>>
  /\ UNCHANGED <<fetchVars, limiterVars, botVars, urlVars, pageVars, peerVars>>

NextStop == Next \/ Stop \/ ProcessExits

SpecStop == InitNotify /\ [][NextStop]_vars

(***************************************************************************)
(* One cycle over a database whose calls may fail while the per-link tasks *)
(* run.                                                                    *)
(***************************************************************************)
\* A persistence call awaited inside parseLink's try block rejects: the
\* catch block takes over.
PersistenceFails(l) ==
  /\ task[l].pc \in {"updateLastParsed", "resetErrorCount", "isNewAd", "createAd",
                      "getUserById"}
  /\ Continue([task EXCEPT ![l].pc = "incrementErrorCount"])
  /\ UNCHANGED <<links, ads, users, notified, started, now, streak, feeds, maxCycles,
                 blocked, delivered, offstage>>

\* A persistence call awaited inside parseLink's catch block rejects:
\* parseLink rejects, Promise.all rejects at once, and runParsing goes
\* through its catch and finally while the batch's other tasks still run.
AccountingFails(l) ==
  /\ task[l].pc \in {"incrementErrorCount", "getUserLinks", "markLinkInactive"}
  /\ task' = [task EXCEPT ![l].pc = "done"]
  /\ IF cyclePc = "batch" THEN Finish ELSE UNCHANGED <<cyclePc, isRunning, inFlight>>
  /\ UNCHANGED <<links, ads, users, notified, started, cycleLinks, batchStart, now,
                 streak, feeds, maxCycles, blocked, delivered, offstage>>

InitFaulty ==
  \E c \in {0, ErrorThreshold - 1} :
    InitWith(
      (1 :> Link(1, "onliner", c)) @@ (2 :> Link(2, "kufar", 0)),
      (1 :> {NetError, Listing(<<Rec("a", 0, 1)>>)})
      @@ (2 :> {Listing(<<Rec("b", 1, 1)>>)}),
      1)

NextFaulty ==
  \/ Next
  \/ \E l \in DOMAIN links : PersistenceFails(l)
  \/ \E l \in DOMAIN links : AccountingFails(l)

SpecFaulty == InitFaulty /\ [][NextFaulty]_vars

(***************************************************************************)
(* A second scheduler process on the same database, polling one of the     *)
(* links while the first one runs its cycle.  Its parseLink is followed    *)
(* from a search page that lists records; sent: the external ids it has    *)
(* delivered.                                                              *)
(***************************************************************************)
\* The link the second process is polling.
PeerLink == IF peer.pc = "none" THEN NoLink.id ELSE peer.link.id

PeerKeeps ==
  UNCHANGED <<users, notified, started, isRunning, inFlight, cyclePc, cycleLinks,
              batchStart, task, now, streak, feeds, maxCycles, blocked, delivered,
              fetchVars, limiterVars, botVars, urlVars, pageVars, mainVars>>

\* The second process has loaded the active links and calls parseLink.
PeerStart ==
  /\ peer.pc = "none"
  /\ started
  /\ \E l \in DOMAIN links :
       /\ links[l].is_active
       /\ peer' = StartTask(LinkRow(links, l)) @@ [sent |-> {}]
  /\ UNCHANGED <<links, ads>> /\ PeerKeeps

PeerParseUrl ==
  /\ peer.pc = "parseUrl"
  /\ \E answer \in feeds[PeerLink] :
       LET r == parseUrl(peer.link.platform, answer)
       IN /\ r.ok /\ Len(r.ads) > 0
          /\ peer' = [peer EXCEPT !.pc = "updateLastParsed", !.ads = r.ads,
                                  !.result = "ok", !.answer = answer]
  /\ UNCHANGED <<links, ads>> /\ PeerKeeps

PeerUpdateLastParsed ==
  /\ peer.pc = "updateLastParsed"
  /\ links' = updateLastParsed(links, peer.link.id, now)
  /\ peer' = IF peer.link.error_count > 0
             THEN [peer EXCEPT !.pc = "resetErrorCount"]
             ELSE EnterLoop(peer, 1)
  /\ UNCHANGED ads /\ PeerKeeps

PeerResetErrorCount ==
  /\ peer.pc = "resetErrorCount"
  /\ links' = resetErrorCount(links, peer.link.id)
  /\ peer' = EnterLoop(peer, 1)
  /\ UNCHANGED ads /\ PeerKeeps

PeerIsNewAd ==
  /\ peer.pc = "isNewAd"
  /\ peer' = IF isNewAd(ads, peer.ads[peer.k].external_id)
             THEN [peer EXCEPT !.pc = "createAd"]
             ELSE EnterLoop(peer, peer.k + 1)
  /\ UNCHANGED <<links, ads>> /\ PeerKeeps

\* The loop body pushing the extracted record whatever createAd returned.
PeerCreateAdPushesAlways ==
  /\ peer.pc = "createAd"
  /\ LET r == createAd(ads, peer.link.id, peer.ads[peer.k])
     IN /\ ads' = r.ads
        /\ peer' = EnterLoop([peer EXCEPT
                       !.newAds = Append(peer.newAds, AdRow(peer.link.id, peer.ads[peer.k])),
                       !.ad = r.row], peer.k + 1)
  /\ UNCHANGED links /\ PeerKeeps

\* const ad = await this.db.createAd(link.id, adData); if (ad) newAds.push(ad)
PeerCreateAd ==
  /\ peer.pc = "createAd"
  /\ LET r == createAd(ads, peer.link.id, peer.ads[peer.k])
         pushed == IF r.row # NoRow THEN Append(peer.newAds, r.row) ELSE peer.newAds
     IN /\ ads' = r.ads
        /\ peer' = EnterLoop([peer EXCEPT !.newAds = pushed, !.ad = r.row], peer.k + 1)
  /\ UNCHANGED links /\ PeerKeeps

PeerGetUserById ==
  /\ peer.pc = "getUserById"
  /\ peer' = IF getUserById(users, peer.link.user_id)
             THEN [peer EXCEPT !.pc = "sendNotification",
                               !.adsToNotify = AdsToNotify(peer.newAds), !.n = 1]
             ELSE [peer EXCEPT !.pc = "done"]
  /\ UNCHANGED <<links, ads>> /\ PeerKeeps

PeerSendNotification ==
  /\ peer.pc = "sendNotification"
  /\ peer' = [peer EXCEPT
       !.pc = "sleep",
       !.sent = IF sendNotification(blocked, peer.link.user_id)
                THEN @ \cup {peer.adsToNotify[peer.n].external_id} ELSE @]
  /\ UNCHANGED <<links, ads>> /\ PeerKeeps

PeerSleep ==
  /\ peer.pc = "sleep"
  /\ peer' = IF peer.n + 1 <= Len(peer.adsToNotify)
             THEN [peer EXCEPT !.pc = "sendNotification", !.n = peer.n + 1]
             ELSE [peer EXCEPT !.pc = "done", !.n = peer.n + 1]
  /\ UNCHANGED <<links, ads>> /\ PeerKeeps

NextPeers ==
  \/ Next
  \/ PeerStart
  \/ PeerParseUrl
  \/ PeerUpdateLastParsed
  \/ PeerResetErrorCount
  \/ PeerIsNewAd
  \/ PeerCreateAd
  \/ PeerGetUserById
  \/ PeerSendNotification
  \/ PeerSleep

SpecPeers == InitFaulty /\ [][NextPeers]_vars

(***************************************************************************)
(* The scheduler where it does not run: no links, no timer.                *)
(***************************************************************************)
SchedulerUnused ==
  /\ links = <<>>
  /\ ads = EmptyBag
  /\ users = {}
  /\ notified = EmptyBag
  /\ started = FALSE
  /\ isRunning = FALSE
  /\ inFlight = 0
  /\ cyclePc = "idle"
  /\ cycleLinks = <<>>
  /\ batchStart = 0
  /\ task = <<>>
  /\ now = 0
  /\ streak = <<>>
  /\ feeds = <<>>
  /\ maxCycles = 0
  /\ blocked = {}
  /\ delivered = EmptyBag

(***************************************************************************)
(* BaseParser.fetchWithRetry: one call, one step per await.                *)
(***************************************************************************)
\* What one axiosInstance.get(url) may settle with: a body, or an error
\* (timeout, refused connection, HTTP 429).
Responses ==
  {[ok |-> TRUE, value |-> "<html>1"], [ok |-> TRUE, value |-> "<html>2"],
   [ok |-> FALSE, value |-> "timeout of 10000ms exceeded"],
   [ok |-> FALSE, value |-> "connect ECONNREFUSED"],
   [ok |-> FALSE, value |-> "Request failed with status code 429"]}

\* A backoff that does not grow.
BackoffFlat(i) == 1000

\* Math.pow(2, i) * 1000
Backoff(i) == (2 ^ i) * 1000

\* The test for the last attempt, one attempt late.
LastAttemptLate(i, r) == i = r

\* i === retries - 1
LastAttempt(i, r) == i = r - 1

\* fetchWithRetry(url, retries) is called and runs to its first await; with
\* retries = 0 the loop body never runs and the final throw is reached.
CallFetchWithRetry ==
  /\ fetch.pc = "idle"
  /\ \E r \in 0..MaxRetries :
       fetch' = IF 0 < r
                THEN [fetch EXCEPT !.pc = "get", !.retries = r, !.i = 0]
                ELSE [fetch EXCEPT !.pc = "thrown", !.retries = r,
                        !.settled = [kind |-> "throw",
                                     value |-> "All retry attempts failed"]]
  /\ UNCHANGED <<schedVars, limiterVars, botVars, urlVars, pageVars, peerVars, mainVars>>

\* The awaited axiosInstance.get settles: return the body, or (catch) throw
\* on the last attempt, or begin the backoff sleep.
AxiosGet ==
  /\ fetch.pc = "get"
  /\ \E resp \in Responses :
       fetch' =
         IF resp.ok
         THEN [fetch EXCEPT !.pc = "returned", !.gets = Append(@, resp),
                 !.settled = [kind |-> "return", value |-> resp.value]]
         ELSE IF LastAttempt(fetch.i, fetch.retries)
         THEN [fetch EXCEPT !.pc = "thrown", !.gets = Append(@, resp),
                 !.settled = [kind |-> "throw", value |-> resp.value]]
         ELSE [fetch EXCEPT !.pc = "sleep", !.gets = Append(@, resp),
                 !.sleeps = Append(@, Backoff(fetch.i))]
  /\ UNCHANGED <<schedVars, limiterVars, botVars, urlVars, pageVars, peerVars, mainVars>>

\* The backoff sleep is over: i++, and the loop condition i < retries.
BackoffSleep ==
  /\ fetch.pc = "sleep"
  /\ fetch' =
       IF fetch.i + 1 < fetch.retries
       THEN [fetch EXCEPT !.pc = "get", !.i = @ + 1]
       ELSE [fetch EXCEPT !.pc = "thrown", !.i = @ + 1,
               !.settled = [kind |-> "throw", value |-> "All retry attempts failed"]]
  /\ UNCHANGED <<schedVars, limiterVars, botVars, urlVars, pageVars, peerVars, mainVars>>

InitFetch ==
  SchedulerUnused /\ FetchUnused /\ LimiterUnused /\ BotUnused /\ UrlUnused /\ PageUnused /\ PeerUnused /\ NotShutDown

NextFetch == CallFetchWithRetry \/ AxiosGet \/ BackoffSleep

\* Every request settles (axios is created with timeout: 10000) and every
\* timer fires: a call that can take a step takes it.
SpecFetch == InitFetch /\ [][NextFetch]_vars /\ WF_vars(NextFetch)

(***************************************************************************)
(* RateLimiter, and the prologue of the bot's update callbacks that asks   *)
(* it.                                                                     *)
(***************************************************************************)
\* isAllowed admitting while the window holds exactly maxRequests.
isAllowedOneMore(reqs, userId, t) ==
  LET validRequests == SelectSeq(reqs[userId], LAMBDA time : t - time < windowMs)
  IN IF Len(validRequests) > maxRequests
     THEN [allowed |-> FALSE, requests |-> reqs]
     ELSE [allowed |-> TRUE,
           requests |-> [reqs EXCEPT ![userId] = Append(validRequests, t)]]

\* RateLimiter.isAllowed at time t: the answer and the map afterwards.
isAllowed(reqs, userId, t) ==
  LET validRequests == SelectSeq(reqs[userId], LAMBDA time : t - time < windowMs)
  IN IF Len(validRequests) >= maxRequests
     THEN [allowed |-> FALSE, requests |-> reqs]
     ELSE [allowed |-> TRUE,
           requests |-> [reqs EXCEPT ![userId] = Append(validRequests, t)]]

LimiterUsers == {1, 2}

\* The instants at which updates arrive.
Instants == {0, windowMs - 1, windowMs}

\* bot.on('message') and bot.on('callback_query'): ask the limiter; refuse
\* with a warning, or go on to the handler of the update.
OnUpdate(u) ==
  /\ LET r == isAllowed(requests, u, clock)
     IN /\ requests' = r.requests
        /\ IF r.allowed
           THEN /\ allowedLog' = [allowedLog EXCEPT ![u] = Append(@, clock)]
                /\ handlersRun' = [handlersRun EXCEPT ![u].run = @ + 1]
           ELSE /\ handlersRun[u].refused < MaxRefused
                /\ handlersRun' = [handlersRun EXCEPT ![u].refused = @ + 1]
                /\ UNCHANGED allowedLog
  /\ UNCHANGED <<clock, schedVars, fetchVars, botVars, urlVars, pageVars, peerVars, mainVars>>

\* Time passes.
ClockAdvances ==
  /\ \E t \in Instants : t > clock /\ clock' = t
  /\ UNCHANGED <<requests, allowedLog, handlersRun, schedVars, fetchVars, botVars, urlVars, pageVars, peerVars, mainVars>>

InitLimiter ==
  /\ SchedulerUnused /\ FetchUnused /\ BotUnused /\ UrlUnused /\ PageUnused /\ PeerUnused /\ NotShutDown
  /\ requests = [u \in LimiterUsers |-> <<>>]
  /\ clock = 0
  /\ allowedLog = [u \in LimiterUsers |-> <<>>]
  /\ handlersRun = [u \in LimiterUsers |-> [run |-> 0, refused |-> 0]]

NextLimiter ==
  \/ \E u \in LimiterUsers : OnUpdate(u)
  \/ ClockAdvances

SpecLimiter == InitLimiter /\ [][NextLimiter]_vars

(***************************************************************************)
(* URL functions.  A URL is what `new URL(text)` makes of it: hostname     *)
(* (lower case), pathname, and the value of the gtsy query parameter (""   *)
(* when absent).  Strings are handled character by character.              *)
(***************************************************************************)
\* String.prototype.includes
Includes(str, sub) ==
  \E i \in 1..(Len(str) - Len(sub) + 1) : SubSeq(str, i, i + Len(sub) - 1) = sub

\* String.prototype.startsWith
StartsWith(str, prefix) ==
  Len(prefix) <= Len(str) /\ SubSeq(str, 1, Len(prefix)) = prefix

IsDigit(c) == c \in {"0", "1", "2", "3", "4", "5", "6", "7", "8", "9"}

\* /^\d+$/.test(str)
IsDigits(str) == Len(str) > 0 /\ \A i \in 1..Len(str) : IsDigit(SubSeq(str, i, i))

\* str.match(/^<prefix>\d+/) for a literal prefix
StartsWithThenDigit(str, prefix) ==
  /\ StartsWith(str, prefix)
  /\ Len(str) > Len(prefix)
  /\ IsDigit(SubSeq(str, Len(prefix) + 1, Len(prefix) + 1))

\* pathname.split('/').filter(Boolean)
RECURSIVE PathParts(_)
PathParts(path) ==
  IF path = "" THEN <<>>
  ELSE IF \E i \in 1..Len(path) : SubSeq(path, i, i) = "/"
  THEN LET cut == CHOOSE i \in 1..Len(path) :
                    /\ SubSeq(path, i, i) = "/"
                    /\ \A j \in 1..(i - 1) : SubSeq(path, j, j) # "/"
           first == SubSeq(path, 1, cut - 1)
           rest == PathParts(SubSeq(path, cut + 1, Len(path)))
       IN IF first = "" THEN rest ELSE <<first>> \o rest
  ELSE <<path>>

\* A text that `new URL` rejects (it throws).
NotAUrl == [hostname |-> "", pathname |-> "", gtsy |-> ""]

\* KufarParser.validateUrl
KufarValidateUrl(u) ==
  /\ u # NotAUrl
  /\ Includes(u.hostname, "kufar.by")
  /\ (StartsWith(u.pathname, "/l/") \/ StartsWith(u.pathname, "/re/"))

\* OnlinerParser.validateUrl
OnlinerValidateUrl(u) ==
  /\ u # NotAUrl
  /\ Includes(u.hostname, "onliner.by")
  /\ \/ Includes(u.hostname, "baraholka")
     \/ Includes(u.hostname, "ab")
     \/ Includes(u.hostname, "r.onliner")

\* parser.validateUrl(url) of the extractor registered for the platform.
validateUrl(platform, u) ==
  IF platform = "kufar" THEN KufarValidateUrl(u) ELSE OnlinerValidateUrl(u)

\* UrlValidator.isValidUrl
isValidUrl(u) == u # NotAUrl

\* UrlValidator.detectPlatform
detectPlatform(u) ==
  IF u = NotAUrl THEN "null"
  ELSE IF Includes(u.hostname, "kufar.by") THEN "kufar"
  ELSE IF Includes(u.hostname, "onliner.by") THEN "onliner"
  ELSE "null"

\* UrlValidator.isSearchPage
isSearchPage(u, platform) ==
  IF u = NotAUrl THEN FALSE
  ELSE IF platform = "kufar"
  THEN StartsWith(u.pathname, "/l/") \/ StartsWith(u.pathname, "/re/")
  ELSE IF platform = "onliner"
  THEN LET parts == PathParts(u.pathname)
       IN ~ \/ /\ Includes(u.hostname, "ab.onliner")
                /\ Len(parts) >= 3 /\ IsDigits(parts[Len(parts)])
             \/ /\ Includes(u.hostname, "baraholka.onliner")
                /\ StartsWithThenDigit(u.pathname, "/products/")
             \/ /\ Includes(u.hostname, "r.onliner")
                /\ StartsWithThenDigit(u.pathname, "/ak/")
  ELSE TRUE

\* UrlValidator.validateUrl
UrlValidatorValidateUrl(u) ==
  IF ~isValidUrl(u) THEN [valid |-> FALSE, platform |-> "null"]
  ELSE IF detectPlatform(u) = "null" THEN [valid |-> FALSE, platform |-> "null"]
  ELSE IF ~isSearchPage(u, detectPlatform(u))
  THEN [valid |-> FALSE, platform |-> detectPlatform(u)]
  ELSE [valid |-> TRUE, platform |-> detectPlatform(u)]

\* CITY_TO_REGION_ID
CITY_TO_REGION_ID ==
  [minsk |-> "7", brest |-> "1", vitebsk |-> "6", gomel |-> "2", grodno |-> "3",
   mogilev |-> "4", baranovichi |-> "1", pinsk |-> "1", kobrin |-> "1",
   bereza |-> "1", orsha |-> "6", polotsk |-> "6", novopolotsk |-> "6",
   zhlobin |-> "2", mozyr |-> "2", rechitsa |-> "2", svetlogorsk |-> "2",
   lida |-> "3", volkovysk |-> "3", slonim |-> "3", borisov |-> "5",
   soligorsk |-> "5", molodechno |-> "5", zhodino |-> "5", slutsk |-> "5",
   bobruisk |-> "4"]
  @@ ("minskaya-oblast" :> "5") @@ ("brestskaya-oblast" :> "1")
  @@ ("vitebskaya-oblast" :> "6") @@ ("gomelskaya-oblast" :> "2")
  @@ ("grodnenskaya-oblast" :> "3") @@ ("mogilevskaya-oblast" :> "4")

\* The gtsy chain with the codes in the reading order of the region names
\* (Brest 1, Vitebsk 2, Gomel 3, Grodno 4, Minsk region 5, Mogilev 6).
GtsyRegionSequential(gtsy) ==
  IF gtsy = "" THEN ""
  ELSE IF Includes(gtsy, "province-minsk_gorod") THEN "7"
  ELSE IF Includes(gtsy, "province-minskaja_oblast") THEN "5"
  ELSE IF Includes(gtsy, "province-brestskaja_oblast") THEN "1"
  ELSE IF Includes(gtsy, "province-vitebskaja_oblast") THEN "2"
  ELSE IF Includes(gtsy, "province-gomelskaja_oblast") THEN "3"
  ELSE IF Includes(gtsy, "province-grodnenskaja_oblast") THEN "4"
  ELSE IF Includes(gtsy, "province-mogilevskaja_oblast") THEN "6"
  ELSE ""

\* KufarParser.parseUrl: the region from the gtsy parameter ("": none).
GtsyRegion(gtsy) ==
  IF gtsy = "" THEN ""
  ELSE IF Includes(gtsy, "province-minsk_gorod") THEN "7"
  ELSE IF Includes(gtsy, "province-minskaja_oblast") THEN "5"
  ELSE IF Includes(gtsy, "province-brestskaja_oblast") THEN "1"
  ELSE IF Includes(gtsy, "province-vitebskaja_oblast") THEN "6"
  ELSE IF Includes(gtsy, "province-gomelskaja_oblast") THEN "2"
  ELSE IF Includes(gtsy, "province-grodnenskaja_oblast") THEN "3"
  ELSE IF Includes(gtsy, "province-mogilevskaja_oblast") THEN "4"
  ELSE ""

\* The fallback: the first path part that is a key of CITY_TO_REGION_ID.
RECURSIVE PathRegion(_)
PathRegion(parts) ==
  IF parts = <<>> THEN ""
  ELSE IF Head(parts) \in DOMAIN CITY_TO_REGION_ID
  THEN CITY_TO_REGION_ID[Head(parts)]
  ELSE PathRegion(Tail(parts))

\* The resolution asking the path first and the gtsy parameter after it.
ResolveRegionPathFirst(u) ==
  IF PathRegion(PathParts(u.pathname)) # "" THEN PathRegion(PathParts(u.pathname))
  ELSE GtsyRegion(u.gtsy)

\* KufarParser.parseUrl: rgn.
ResolveRegion(u) ==
  IF GtsyRegion(u.gtsy) # "" THEN GtsyRegion(u.gtsy)
  ELSE PathRegion(PathParts(u.pathname))

Hosts ==
  {"www.kufar.by", "re.kufar.by", "ab.onliner.by", "baraholka.onliner.by",
   "r.onliner.by", "catalog.onliner.by", "realt.by"}

Paths ==
  {"/", "/l/mobilnye-telefony", "/l/r~minsk/kvartiru", "/re/brest/snyat",
   "/item/231456789", "/bmw/x5", "/bmw/x5/4455667", "/products/98765",
   "/category-12", "/ak/", "/ak/55512"}

Provinces ==
  {"minsk_gorod", "minskaja_oblast", "brestskaja_oblast", "vitebskaja_oblast",
   "gomelskaja_oblast", "grodnenskaja_oblast", "mogilevskaja_oblast"}

\* The gtsy values that name the province: alone, after the country, and
\* with a locality after it.
HintsNaming(province) ==
  {"province-" \o province,
   "country-belarus~province-" \o province,
   "country-belarus~province-" \o province \o "~locality-lida"}

Hints == {"", "country-belarus"} \cup UNION {HintsNaming(p) : p \in Provinces}

\* validateUrl of both registered extractors and of the bot's UrlValidator.
ValidateUrl ==
  /\ ~verdict.done
  /\ verdict' = [done |-> TRUE,
                 kufar |-> validateUrl("kufar", url),
                 onliner |-> validateUrl("onliner", url),
                 validator |-> UrlValidatorValidateUrl(url)]
  /\ UNCHANGED <<url, rgn, schedVars, fetchVars, limiterVars, botVars, pageVars, peerVars, mainVars>>

\* The region resolution of KufarParser.parseUrl.
ResolveRgn ==
  /\ rgn = "none"
  /\ rgn' = ResolveRegion(url)
  /\ UNCHANGED <<url, verdict, schedVars, fetchVars, limiterVars, botVars, pageVars, peerVars, mainVars>>

InitUrl ==
  /\ SchedulerUnused /\ FetchUnused /\ LimiterUnused /\ BotUnused /\ PageUnused /\ PeerUnused /\ NotShutDown
  /\ url \in {NotAUrl} \cup [hostname : Hosts, pathname : Paths, gtsy : Hints]
  /\ verdict = [done |-> FALSE, kufar |-> FALSE, onliner |-> FALSE,
                validator |-> [valid |-> FALSE, platform |-> "null"]]
  /\ rgn = "none"

NextUrl == ValidateUrl \/ ResolveRgn

SpecUrl == InitUrl /\ [][NextUrl]_vars

(***************************************************************************)
(* The bot's registration handlers.  A handler runs in one step up to its  *)
(* trial extraction; the step in which parser.parseUrl settles finishes    *)
(* it.  Handlers of different updates interleave at that await.            *)
(***************************************************************************)
\* DatabaseService.getUser
getUser(us, telegramId) == telegramId \in us

\* SELECT COUNT(*) FROM links WHERE user_id = $1
getUserLinksCount(tbl, userId) ==
  Cardinality({id \in DOMAIN tbl : tbl[id].user_id = userId})

\* INSERT INTO links (user_id, url, platform): the row under the next id.
createLink(tbl, id, userId, u, platform) ==
  tbl @@ (id :> (Link(userId, platform, 0) @@ [url |-> u]))

\* DELETE FROM links WHERE id = $1
deleteLink(tbl, id) == [i \in DOMAIN tbl \ {id} |-> tbl[i]]

\* existingLinks.some(link => link.url === url)
isDuplicate(tbl, userId, u) ==
  \E id \in DOMAIN tbl : tbl[id].user_id = userId /\ tbl[id].url = u

\* The trial counted as passed whenever parseUrl resolved, records or not.
TrialPassedAlsoEmpty(r) == r.ok

\* The trial extraction passed: parseUrl resolved with at least one record.
TrialPassed(r) == r.ok /\ Len(r.ads) > 0

\* What a site may answer to a trial extraction.
TrialAnswers == {NetError, BadShape, Listing(<<>>), Listing(<<Rec("a", 0, 1)>>)}

BotUsers == {1, 2}

KufarSearch == [hostname |-> "www.kufar.by", pathname |-> "/l/mobilnye-telefony", gtsy |-> ""]
OnlinerSearch == [hostname |-> "r.onliner.by", pathname |-> "/ak/", gtsy |-> ""]
OnlinerItem == [hostname |-> "ab.onliner.by", pathname |-> "/bmw/x5/4455667", gtsy |-> ""]
RealtSearch == [hostname |-> "realt.by", pathname |-> "/", gtsy |-> ""]

\* The texts users send: search pages, an item page, an unsupported site,
\* and a text that is no URL.
BotTexts == {KufarSearch, OnlinerSearch, OnlinerItem, RealtSearch, NotAUrl}

\* A search registered earlier.
OldSearch(i) ==
  [hostname |-> "www.kufar.by", pathname |-> "/l/r~minsk/" \o ToString(i), gtsy |-> ""]

\* The checks of handleAddLink and handleDirectLink before the user lookup:
\* UrlValidator.validateUrl, then the extractor's own validateUrl.
Accepted(text) ==
  LET validation == UrlValidatorValidateUrl(text)
  IN /\ validation.valid
     /\ validation.platform # "null"
     /\ getParser(validation.platform) # "null"
     /\ validateUrl(validation.platform, text)

Received == interactions' = interactions + 1

\* handleAddLinkButton
HandleAddLinkButton(u) ==
  /\ interactions < MaxInteractions
  /\ Received
  /\ IF getUser(users, u) /\ getUserLinksCount(links, u) < LinkLimit
     THEN userStates' = [userStates EXCEPT ![u] = "awaiting_url"]
     ELSE UNCHANGED userStates
  /\ UNCHANGED <<links, pendingLinks, trials, nextLinkId, trialOk>>
  /\ UNCHANGED <<ads, users, notified, started, isRunning, inFlight, cyclePc,
                 cycleLinks, batchStart, task, now, streak, feeds, maxCycles,
                 blocked, delivered>>
  /\ UNCHANGED <<fetchVars, limiterVars, urlVars, pageVars, peerVars, mainVars>>

\* handleAddLink, for a text sent while the user's state is awaiting_url,
\* up to `await parser.parseUrl(url)`.
HandleAddLink(u, text) ==
  /\ interactions < MaxInteractions
  /\ userStates[u] = "awaiting_url"
  /\ Received
  /\ userStates' = [userStates EXCEPT ![u] = "none"]
  /\ IF Accepted(text) /\ getUser(users, u) /\ ~isDuplicate(links, u, text)
     THEN trials' = trials \cup {[handler |-> "addLink", user |-> u, url |-> text]}
     ELSE UNCHANGED trials
  /\ UNCHANGED <<links, pendingLinks, nextLinkId, trialOk>>
  /\ UNCHANGED <<ads, users, notified, started, isRunning, inFlight, cyclePc,
                 cycleLinks, batchStart, task, now, streak, feeds, maxCycles,
                 blocked, delivered>>
  /\ UNCHANGED <<fetchVars, limiterVars, urlVars, pageVars, peerVars, mainVars>>

\* handleAddLink from the settling of its trial extraction on: no records
\* or an error end it, otherwise db.createLink.
AddLinkTrialSettles(u, text) ==
  /\ [handler |-> "addLink", user |-> u, url |-> text] \in trials
  /\ trials' = trials \ {[handler |-> "addLink", user |-> u, url |-> text]}
  /\ \E answer \in TrialAnswers :
       LET platform == UrlValidatorValidateUrl(text).platform
           r == parseUrl(platform, answer)
       IN /\ trialOk' = IF r.ok /\ Len(r.ads) > 0
                        THEN trialOk \cup {[user |-> u, url |-> text]}
                        ELSE trialOk
          /\ IF TrialPassed(r)
             THEN /\ links' = createLink(links, nextLinkId, u, text, platform)
                  /\ nextLinkId' = nextLinkId + 1
             ELSE UNCHANGED <<links, nextLinkId>>
  /\ UNCHANGED <<userStates, pendingLinks, interactions>>
  /\ UNCHANGED <<ads, users, notified, started, isRunning, inFlight, cyclePc,
                 cycleLinks, batchStart, task, now, streak, feeds, maxCycles,
                 blocked, delivered>>
  /\ UNCHANGED <<fetchVars, limiterVars, urlVars, pageVars, peerVars, mainVars>>

\* handleDirectLink, for a link sent outside the awaiting_url state, up to
\* `await parser.parseUrl(url)`.
HandleDirectLink(u, text) ==
  /\ interactions < MaxInteractions
  /\ userStates[u] # "awaiting_url"
  /\ text # NotAUrl
  /\ Received
  /\ IF /\ Accepted(text) /\ getUser(users, u)
        /\ getUserLinksCount(links, u) < LinkLimit
        /\ ~isDuplicate(links, u, text)
     THEN trials' = trials \cup {[handler |-> "directLink", user |-> u, url |-> text]}
     ELSE UNCHANGED trials
  /\ UNCHANGED <<links, userStates, pendingLinks, nextLinkId, trialOk>>
  /\ UNCHANGED <<ads, users, notified, started, isRunning, inFlight, cyclePc,
                 cycleLinks, batchStart, task, now, streak, feeds, maxCycles,
                 blocked, delivered>>
  /\ UNCHANGED <<fetchVars, limiterVars, urlVars, pageVars, peerVars, mainVars>>

\* handleDirectLink from the settling of its trial extraction on: with
\* records the URL is kept in pendingLinks and the preview is shown.
DirectLinkTrialSettles(u, text) ==
  /\ [handler |-> "directLink", user |-> u, url |-> text] \in trials
  /\ trials' = trials \ {[handler |-> "directLink", user |-> u, url |-> text]}
  /\ \E answer \in TrialAnswers :
       LET r == parseUrl(UrlValidatorValidateUrl(text).platform, answer)
       IN /\ trialOk' = IF r.ok /\ Len(r.ads) > 0
                        THEN trialOk \cup {[user |-> u, url |-> text]}
                        ELSE trialOk
          /\ IF TrialPassed(r)
             THEN pendingLinks' = [pendingLinks EXCEPT ![u] = text]
             ELSE UNCHANGED pendingLinks
  /\ UNCHANGED <<links, userStates, nextLinkId, interactions>>
  /\ UNCHANGED <<ads, users, notified, started, isRunning, inFlight, cyclePc,
                 cycleLinks, batchStart, task, now, streak, feeds, maxCycles,
                 blocked, delivered>>
  /\ UNCHANGED <<fetchVars, limiterVars, urlVars, pageVars, peerVars, mainVars>>

\* handleConfirmAddLink: the pending URL is validated again and stored.
HandleConfirmAddLink(u) ==
  /\ interactions < MaxInteractions
  /\ Received
  /\ LET text == pendingLinks[u]
         validation == UrlValidatorValidateUrl(text)
     IN IF text = NotAUrl
        THEN UNCHANGED <<links, pendingLinks, nextLinkId>>
        ELSE IF ~validation.valid \/ validation.platform = "null" \/ ~getUser(users, u)
        THEN /\ pendingLinks' = [pendingLinks EXCEPT ![u] = NotAUrl]
             /\ UNCHANGED <<links, nextLinkId>>
        ELSE /\ links' = createLink(links, nextLinkId, u, text, validation.platform)
             /\ nextLinkId' = nextLinkId + 1
             /\ pendingLinks' = [pendingLinks EXCEPT ![u] = NotAUrl]
  /\ UNCHANGED <<userStates, trials, trialOk>>
  /\ UNCHANGED <<ads, users, notified, started, isRunning, inFlight, cyclePc,
                 cycleLinks, batchStart, task, now, streak, feeds, maxCycles,
                 blocked, delivered>>
  /\ UNCHANGED <<fetchVars, limiterVars, urlVars, pageVars, peerVars, mainVars>>

\* handleCancelAddLink
HandleCancelAddLink(u) ==
  /\ interactions < MaxInteractions
  /\ Received
  /\ pendingLinks' = [pendingLinks EXCEPT ![u] = NotAUrl]
  /\ UNCHANGED <<links, userStates, trials, nextLinkId, trialOk>>
  /\ UNCHANGED <<ads, users, notified, started, isRunning, inFlight, cyclePc,
                 cycleLinks, batchStart, task, now, streak, feeds, maxCycles,
                 blocked, delivered>>
  /\ UNCHANGED <<fetchVars, limiterVars, urlVars, pageVars, peerVars, mainVars>>

\* handleDeleteLink, for the delete button of a listed link.
HandleDeleteLink(id) ==
  /\ interactions < MaxInteractions
  /\ Received
  /\ links' = deleteLink(links, id)
  /\ UNCHANGED <<userStates, pendingLinks, trials, nextLinkId, trialOk>>
  /\ UNCHANGED <<ads, users, notified, started, isRunning, inFlight, cyclePc,
                 cycleLinks, batchStart, task, now, streak, feeds, maxCycles,
                 blocked, delivered>>
  /\ UNCHANGED <<fetchVars, limiterVars, urlVars, pageVars, peerVars, mainVars>>

\* User 1 has sent /start and has registered LinkLimit - 1 searches; user 2
\* has never sent /start.
InitBot ==
  /\ links = [id \in 1..(LinkLimit - 1) |->
                Link(1, "kufar", 0) @@ [url |-> OldSearch(id)]]
  /\ users = {1}
  /\ ads = EmptyBag
  /\ notified = EmptyBag
  /\ started = FALSE
  /\ isRunning = FALSE
  /\ inFlight = 0
  /\ cyclePc = "idle"
  /\ cycleLinks = <<>>
  /\ batchStart = 0
  /\ task = <<>>
  /\ now = 0
  /\ streak = <<>>
  /\ feeds = <<>>
  /\ maxCycles = 0
  /\ blocked = {}
  /\ delivered = EmptyBag
  /\ FetchUnused /\ LimiterUnused /\ UrlUnused /\ PageUnused /\ PeerUnused /\ NotShutDown
  /\ userStates = [u \in BotUsers |-> "none"]
  /\ pendingLinks = [u \in BotUsers |-> NotAUrl]
  /\ trials = {}
  /\ nextLinkId = LinkLimit
  /\ trialOk = {}
  /\ interactions = 0

NextBot ==
  \/ \E u \in BotUsers : HandleAddLinkButton(u)
  \/ \E u \in BotUsers : \E text \in BotTexts : HandleAddLink(u, text)
  \/ \E u \in BotUsers : \E text \in BotTexts : AddLinkTrialSettles(u, text)
  \/ \E u \in BotUsers : \E text \in BotTexts : HandleDirectLink(u, text)
  \/ \E u \in BotUsers : \E text \in BotTexts : DirectLinkTrialSettles(u, text)
  \/ \E u \in BotUsers : HandleConfirmAddLink(u)
  \/ \E u \in BotUsers : HandleCancelAddLink(u)
  \/ \E id \in DOMAIN links : HandleDeleteLink(id)

SpecBot == InitBot /\ [][NextBot]_vars

(***************************************************************************)
(* The extractors' transformations.  A fetched document is                 *)
(* [embedded, data]: whether the markup carries the script (the response a *)
(* body), and the JSON value parsed from it.  A JSON value is [t, v]: its  *)
(* type and, unless undefined, its content.  A transformation's result is  *)
(* [ok, ads] as for parseUrl: ok is FALSE when it throws.                   *)
(***************************************************************************)
JUndefined == [t |-> "undefined"]
JObject(f) == [t |-> "object", v |-> f]
JArray(items) == [t |-> "list", v |-> items]
JString(str) == [t |-> "string", v |-> str]
JNumber(n) == [t |-> "number", v |-> n]

\* !!x
Truthy(x) ==
  \/ x.t \in {"object", "list"}
  \/ x.t = "string" /\ x.v # ""
  \/ x.t = "number" /\ x.v # 0

\* x[key] for an x that is neither undefined nor null.
Prop(x, key) ==
  IF x.t = "object" /\ key \in DOMAIN x.v THEN x.v[key] ELSE JUndefined

\* x.a.b.c: reading a property of undefined throws a TypeError.
RECURSIVE Walk(_, _)
Walk(x, path) ==
  IF path = <<>> THEN [threw |-> FALSE, value |-> x]
  ELSE IF x.t = "undefined" THEN [threw |-> TRUE, value |-> JUndefined]
  ELSE Walk(Prop(x, Head(path)), Tail(path))

Threw == [ok |-> FALSE, ads |-> <<>>]
Resolved(recs) == [ok |-> TRUE, ads |-> recs]

\* KufarParser.parseUrl over the page's window.__INITIAL_STATE__.
KufarPageParseUrl(pg) ==
  LET initialState == IF pg.embedded THEN pg.data ELSE JUndefined
      listing == Prop(initialState, "listing")
  IN IF \/ ~Truthy(initialState)
        \/ ~Truthy(listing)
        \/ ~Truthy(Prop(listing, "ads"))
     THEN Resolved(<<>>)
     ELSE IF Prop(listing, "ads").t = "list"
     THEN Resolved(Prop(listing, "ads").v)
     ELSE Threw

\* ads.sort((a, b) => dateB - dateA): stable, newest first.
RECURSIVE SortNewestFirst(_)
SortNewestFirst(items) ==
  IF items = <<>> THEN <<>>
  ELSE LET front == SortNewestFirst(SubSeq(items, 1, Len(items) - 1))
           x == items[Len(items)]
           q == Cardinality({i \in 1..Len(front) :
                              front[i].published_at >= x.published_at})
       IN SubSeq(front, 1, q) \o <<x>> \o SubSeq(front, q + 1, Len(front))

\* AvParser.parseUrl over the page's #__NEXT_DATA__.
AvParseUrl(pg) ==
  IF ~pg.embedded THEN Resolved(<<>>)
  ELSE LET adverts == Walk(pg.data, <<"props", "initialState", "filter", "main", "adverts">>)
       IN IF adverts.threw THEN Threw
          ELSE IF ~Truthy(adverts.value) \/ adverts.value.t # "list" THEN Resolved(<<>>)
          ELSE Resolved(SortNewestFirst(adverts.value.v))

\* [...(response.data?.ads || [])] and the ad_id test of the merge: the
\* items that carry an ad_id.  A string spreads into its characters, an
\* object or a number is not iterable.
KufarApiItems(data) ==
  LET field == IF data.t = "undefined" THEN JUndefined ELSE Prop(data, "ads")
  IN IF ~Truthy(field) THEN [threw |-> FALSE, items |-> <<>>]
     ELSE IF field.t = "list" THEN [threw |-> FALSE, items |-> field.v]
     ELSE IF field.t = "string" THEN [threw |-> FALSE, items |-> <<>>]
     ELSE [threw |-> TRUE, items |-> <<>>]

\* KufarParser.parseUrl (the search API) over the paginated response, the
\* poleposition response being an empty listing.
KufarApiParseUrl(pg) ==
  LET paginated == KufarApiItems(IF pg.embedded THEN pg.data ELSE JUndefined)
      poleposition == KufarApiItems(JObject("ads" :> JArray(<<>>)))
  IN IF paginated.threw \/ poleposition.threw THEN Threw
     ELSE Resolved(UniqueAds(paginated.items \o poleposition.items))

\* OnlinerParser.parseRealEstateMap over the API response.
OnlinerMapParseUrl(pg) ==
  LET data == IF pg.embedded THEN pg.data ELSE JUndefined
      apartments == Prop(data, "apartments")
  IN IF \/ ~Truthy(data)
        \/ ~Truthy(apartments)
        \/ apartments.t \in {"list", "string"} /\ Len(apartments.v) = 0
     THEN Resolved(<<>>)
     ELSE IF apartments.t = "list" THEN Resolved(apartments.v)
     ELSE Threw

\* The path to the list of ads in each extractor's document.
ListPath ==
  [kufarPage |-> <<"listing", "ads">>,
   av |-> <<"props", "initialState", "filter", "main", "adverts">>,
   kufarApi |-> <<"ads">>,
   onlinerMap |-> <<"apartments">>]

RECURSIVE Nest(_, _)
Nest(path, leaf) ==
  IF path = <<>> THEN leaf ELSE JObject(Head(path) :> Nest(Tail(path), leaf))

\* What a site may put where the list is expected: a list, or an object, a
\* string or a number.
Leaves ==
  {JArray(<<>>), JArray(<<Rec("a", 1, 1)>>),
   JArray(<<Rec("a", 1, 1), Rec("b", 2, 1), Rec("a", 3, 2)>>),
   JObject(<<>>), JString("abc"), JNumber(5)}

\* The documents: the list's path cut short at some level, or complete.
Documents ==
  UNION {{Nest(SubSeq(ListPath[e], 1, d), JObject(<<>>)) : d \in 0..(Len(ListPath[e]) - 1)}
         \cup {Nest(ListPath[e], leaf) : leaf \in Leaves} : e \in DOMAIN ListPath}

Pages ==
  {[embedded |-> FALSE, data |-> JUndefined]}
  \cup {[embedded |-> TRUE, data |-> d] : d \in Documents}

\* Every extractor's transformation of the fetched document.
Transform ==
  /\ merged.items = <<>>
  /\ ~extracted.done
  /\ extracted' = [done |-> TRUE,
                   kufarPage |-> KufarPageParseUrl(page),
                   av |-> AvParseUrl(page),
                   kufarApi |-> KufarApiParseUrl(page),
                   onlinerMap |-> OnlinerMapParseUrl(page)]
  /\ UNCHANGED <<page, merged, filtered, schedVars, fetchVars, limiterVars, botVars, urlVars,
                 peerVars, mainVars>>

(***************************************************************************)
(* The city filter of the Kufar extractor.  Cyrillic text is written in    *)
(* Latin transliteration, letter case kept.                                *)
(***************************************************************************)
UpperCase == "ABCDEFGHIJKLMNOPQRSTUVWXYZ"
LowerCase == "abcdefghijklmnopqrstuvwxyz"

\* String.prototype.toLowerCase
RECURSIVE ToLowerCase(_)
ToLowerCase(str) ==
  IF str = "" THEN ""
  ELSE LET c == SubSeq(str, 1, 1)
           lc == IF \E i \in 1..Len(UpperCase) : SubSeq(UpperCase, i, i) = c
                 THEN LET i == CHOOSE i \in 1..Len(UpperCase) : SubSeq(UpperCase, i, i) = c
                      IN SubSeq(LowerCase, i, i)
                 ELSE c
       IN lc \o ToLowerCase(SubSeq(str, 2, Len(str)))

\* CITY_VARIANTS
CITY_VARIANTS ==
  [minsk |-> <<"minsk", "pervomajskij", "moskovskij", "leninskij", "zavodskoj",
               "oktyabrskij", "frunzenskij", "partizanskij", "sovetskij", "centralnyj">>,
   brest |-> <<"brest">>, baranovichi |-> <<"baranovichi">>, pinsk |-> <<"pinsk">>,
   kobrin |-> <<"kobrin">>, bereza |-> <<"bereza">>,
   vitebsk |-> <<"vitebsk">>, orsha |-> <<"orsha">>, polotsk |-> <<"polotsk">>,
   novopolotsk |-> <<"novopolotsk">>,
   gomel |-> <<"gomel">>, zhlobin |-> <<"zhlobin">>, mozyr |-> <<"mozyr">>,
   rechitsa |-> <<"rechitsa">>, svetlogorsk |-> <<"svetlogorsk">>,
   grodno |-> <<"grodno">>, lida |-> <<"lida">>, volkovysk |-> <<"volkovysk">>,
   slonim |-> <<"slonim">>,
   mogilev |-> <<"mogilyov", "mogilev">>, bobruisk |-> <<"bobrujsk">>,
   borisov |-> <<"borisov">>, soligorsk |-> <<"soligorsk">>,
   molodechno |-> <<"molodechno">>, zhodino |-> <<"zhodino">>, slutsk |-> <<"slutsk">>]

\* CITY_VARIANTS[citySlugForFilter] || [citySlugForFilter]
TargetCityVariants(city) ==
  IF city \in DOMAIN CITY_VARIANTS THEN CITY_VARIANTS[city] ELSE <<city>>

\* An item of the merged result set: its id and its ad_parameters entry
\* 'area' (present or not, and the entry's vl).
Item(id, area) == [external_id |-> id, area |-> area]

NoArea == [present |-> FALSE, vl |-> ""]
Area(vl) == [present |-> TRUE, vl |-> vl]

\* (location || '').toLowerCase()
RawLocation(item) == IF item.area.present THEN ToLowerCase(item.area.vl) ELSE ""

\* KufarParser.parseUrl: the predicate of processedAds.filter.
KeepsItem(city, item) ==
  /\ RawLocation(item) # ""
  /\ \E i \in DOMAIN TargetCityVariants(city) :
       Includes(RawLocation(item), TargetCityVariants(city)[i])

\* The other KufarParser's predicate of allAds.filter: no area entry
\* excludes the item, otherwise the match is tried in both directions.
KeepsItemBothWays(city, item) ==
  /\ item.area.present
  /\ \E i \in DOMAIN TargetCityVariants(ToLowerCase(city)) :
       LET variant == TargetCityVariants(ToLowerCase(city))[i]
           adCity == ToLowerCase(item.area.vl)
       IN Includes(adCity, variant) \/ Includes(variant, adCity)

\* processedAds.filter(...)
CityFilter(city, items) == SelectSeq(items, LAMBDA item : KeepsItem(city, item))

\* allAds.filter(...)
CityFilterBothWays(city, items) ==
  SelectSeq(items, LAMBDA item : KeepsItemBothWays(city, item))

\* The cities the model's URLs name and what items report as their area.
Cities == {"minsk", "mogilev", "lida", "borisov"}

Areas ==
  {NoArea, Area(""), Area("Minsk"), Area("Minskij rajon"), Area("LIDA"),
   Area("Lid"), Area("Mogilyov"), Area("Gomel")}

RECURSIVE SeqsUpTo(_, _)
SeqsUpTo(S, n) ==
  IF n = 0 THEN {<<>>}
  ELSE SeqsUpTo(S, n - 1)
       \cup {Append(q, x) : q \in {r \in SeqsUpTo(S, n - 1) : Len(r) = n - 1}, x \in S}

MergedSets ==
  {[city |-> c, items |-> [i \in 1..Len(areas) |-> Item(ToString(i), areas[i])]] :
     c \in Cities, areas \in SeqsUpTo(Areas, MaxItems) \ {<<>>}}

\* Both versions of the filter applied to the merged result set.
FilterByCity ==
  /\ merged.items # <<>>
  /\ ~filtered.done
  /\ filtered' = [done |-> TRUE,
                  ads |-> CityFilter(merged.city, merged.items),
                  bothWays |-> CityFilterBothWays(merged.city, merged.items)]
  /\ UNCHANGED <<page, extracted, merged, schedVars, fetchVars, limiterVars, botVars, urlVars,
                 peerVars, mainVars>>

\* A document was fetched, or a result set was merged.
InitPage ==
  /\ SchedulerUnused /\ FetchUnused /\ LimiterUnused /\ BotUnused /\ UrlUnused
  /\ PeerUnused /\ NotShutDown
  /\ extracted = [done |-> FALSE]
  /\ filtered = [done |-> FALSE]
  /\ \/ page \in Pages /\ merged = [city |-> "", items |-> <<>>]
     \/ page = [embedded |-> FALSE, data |-> JUndefined] /\ merged \in MergedSets

NextPage == Transform \/ FilterByCity

SpecPage == InitPage /\ [][NextPage]_vars

(***************************************************************************)
(* Whether the city filter runs, from the URL of the search.  Both         *)
(* versions of KufarParser.parseUrl decide it while resolving the region.  *)
(***************************************************************************)
\* citySlugForFilter: set in the path fallback only, from the first path
\* part that CITY_TO_REGION_ID knows, unless that part names a province.
CitySlugForFilter(u) ==
  LET pathParts == PathParts(u.pathname)
      known == {i \in DOMAIN pathParts : pathParts[i] \in DOMAIN CITY_TO_REGION_ID}
  IN IF GtsyRegion(u.gtsy) # "" \/ known = {} THEN ""
     ELSE LET part == pathParts[CHOOSE i \in known : \A j \in known : i <= j]
          IN IF Includes(part, "-oblast") THEN "" ELSE part

\* if (citySlugForFilter && !apiParams.gtsy)
FilterApplies(u) == CitySlugForFilter(u) # "" /\ u.gtsy = ""

\* regionalCenters
RegionalCenters == {"minsk", "brest", "vitebsk", "gomel", "grodno", "mogilev"}

\* str.replace(sub, ''): the first occurrence only.
RemoveFirst(str, sub) ==
  IF ~Includes(str, sub) THEN str
  ELSE LET at == CHOOSE i \in 1..(Len(str) - Len(sub) + 1) :
                   /\ SubSeq(str, i, i + Len(sub) - 1) = sub
                   /\ \A j \in 1..(i - 1) : SubSeq(str, j, j + Len(sub) - 1) # sub
       IN SubSeq(str, 1, at - 1) \o SubSeq(str, at + Len(sub), Len(str))

\* str.replace(/_/g, ' ')
RECURSIVE UnderscoresToSpaces(_)
UnderscoresToSpaces(str) ==
  IF str = "" THEN ""
  ELSE (IF SubSeq(str, 1, 1) = "_" THEN " " ELSE SubSeq(str, 1, 1))
       \o UnderscoresToSpaces(SubSeq(str, 2, Len(str)))

\* gtsy.match(/locality-([^~]+)/)[1].replace(/_/g, ' '), "" when there is
\* no match.
Locality(gtsy) ==
  LET word == "locality-"
      starts == {i \in 1..(Len(gtsy) - Len(word)) :
                   /\ SubSeq(gtsy, i, i + Len(word) - 1) = word
                   /\ SubSeq(gtsy, i + Len(word), i + Len(word)) # "~"}
  IN IF starts = {} THEN ""
     ELSE LET from == (CHOOSE i \in starts : \A j \in starts : i <= j) + Len(word)
              stops == {k \in from..Len(gtsy) : SubSeq(gtsy, k, k) = "~"}
              to == IF stops = {} THEN Len(gtsy)
                    ELSE (CHOOSE k \in stops : \A j \in stops : k <= j) - 1
          IN UnderscoresToSpaces(SubSeq(gtsy, from, to))

\* filterCity of the other KufarParser: the second path part whatever it
\* is, unless it names a province or a regional centre; a locality of the
\* gtsy parameter replaces it.  "" stands for null.
FilterCity(u) ==
  LET pathParts == PathParts(u.pathname)
      locationPart == IF Len(pathParts) >= 2 THEN pathParts[2] ELSE ""
      fromPath == IF /\ locationPart # ""
                     /\ ~Includes(locationPart, "-oblast")
                     /\ locationPart \notin RegionalCenters
                  THEN RemoveFirst(locationPart, "r~")
                  ELSE ""
      locality == Locality(u.gtsy)
  IN IF /\ Includes(u.gtsy, "locality-")
        /\ locality # ""
        /\ ToLowerCase(locality) \notin RegionalCenters
     THEN locality
     ELSE fromPath

\* The tail of parseUrl in both versions: the merged result set goes
\* through the filter when the URL asks for it, and is returned whole
\* otherwise.
FilterForUrl ==
  /\ ~filtered.done
  /\ filtered' = [done |-> TRUE,
                  ads |-> IF FilterApplies(url)
                          THEN CityFilter(CitySlugForFilter(url), merged.items)
                          ELSE merged.items,
                  bothWays |-> IF FilterCity(url) # ""
                               THEN CityFilterBothWays(FilterCity(url), merged.items)
                               ELSE merged.items]
  /\ UNCHANGED <<page, extracted, merged, schedVars, fetchVars, limiterVars, botVars, urlVars,
                 peerVars, mainVars>>

\* The searches of the model: a category alone, a province, a regional
\* centre, and towns, with and without a gtsy parameter.
SearchPaths ==
  {"/l/mobilnye-telefony", "/l/brestskaya-oblast/kvartiru", "/l/r~minsk/kvartiru",
   "/l/lida/kvartiru", "/l/r~borisov/kvartiru", "/re/brest/snyat"}

SearchHints ==
  {"", "country-belarus", "country-belarus~province-grodnenskaja_oblast",
   "country-belarus~province-grodnenskaja_oblast~locality-lida"}

\* A kufar search URL and the result set merged for it.
InitCity ==
  /\ SchedulerUnused /\ FetchUnused /\ LimiterUnused /\ BotUnused
  /\ PeerUnused /\ NotShutDown
  /\ url \in [hostname : {"www.kufar.by"}, pathname : SearchPaths, gtsy : SearchHints]
  /\ verdict = [done |-> FALSE, kufar |-> FALSE, onliner |-> FALSE,
                validator |-> [valid |-> FALSE, platform |-> "null"]]
  /\ rgn = "none"
  /\ page = [embedded |-> FALSE, data |-> JUndefined]
  /\ extracted = [done |-> FALSE]
  /\ filtered = [done |-> FALSE]
  /\ merged \in {[city |-> "", items |-> [i \in 1..Len(areas) |-> Item(ToString(i), areas[i])]] :
                   areas \in SeqsUpTo(Areas, MaxItems - 1)}

NextCity == FilterForUrl

SpecCity == InitCity /\ [][NextCity]_vars

(***************************************************************************)
(* Properties.                                                             *)
(***************************************************************************)
Rows(tbl, linkId, externalId) ==
  {r \in BagToSet(tbl) : r.link_id = linkId /\ r.external_id = externalId}

RowCount(tbl, linkId, externalId) ==
  LET rs == Rows(tbl, linkId, externalId)
      RECURSIVE Sum(_)
      Sum(S) == IF S = {} THEN 0
                ELSE LET r == CHOOSE x \in S : TRUE
                     IN CopiesIn(r, tbl) + Sum(S \ {r})
  IN Sum(rs)

AtMostOneRowPerPair ==
  \A r \in BagToSet(ads) : RowCount(ads, r.link_id, r.external_id) = 1

\* A createAd of parseLink that meets a stored (link, external id) pair
\* returns no row (nothing is pushed to newAds) and leaves the table as it was.
ConflictingInsertIsNoOp ==
  \A l \in DOMAIN links :
    (CreateAd(l) /\ Conflicts(ads, l, task[l].ads[task[l].k].external_id))
      => /\ ads' = ads
         /\ task'[l].ad = NoRow
         /\ task'[l].newAds = task[l].newAds

\* C1: in every reachable state the ads table holds at most one row per
\* (link id, external id), and an insert attempt for a stored pair returns
\* no row and changes nothing in the table.
C1_IdempotentInsert == []AtMostOneRowPerPair /\ [][ConflictingInsertIsNoOp]_vars

\* C1 witness: parseLink's createAd came back empty for a record whose pair
\* is stored, with content that differs from what was extracted now.
C1_Witness ==
  \E l \in DOMAIN links :
    LET t == task[l]
    IN /\ t.ad = NoRow
       /\ t.k >= 2
       /\ \E r \in Rows(ads, l, t.ads[t.k - 1].external_id) :
            r.ver # t.ads[t.k - 1].ver
       /\ RowCount(ads, l, t.ads[t.k - 1].external_id) = 1

\* C2: sendNotification is invoked at most once for every (link, external
\* id) over all cycles, and only for a record that is stored for that link.
C2_NotifiedAtMostOnce ==
  \A x \in BagToSet(notified) :
    /\ CopiesIn(x, notified) = 1
    /\ Conflicts(ads, x.link_id, x.external_id)

\* C2 witness: a record notified in an earlier cycle was extracted again in
\* the current cycle and the link's task has gone past it.
C2_Witness ==
  \E l \in DOMAIN links :
    LET t == task[l]
    IN /\ now >= 2
       /\ t.pc = "done"
       /\ \E i \in 1..Len(t.ads) :
            /\ BagIn([link_id |-> l, external_id |-> t.ads[i].external_id], notified)
            /\ \A j \in 1..Len(t.newAds) : t.newAds[j].external_id # t.ads[i].external_id

LoopDone(t) ==
  t.result = "ok" /\ t.pc \in {"getUserById", "sendNotification", "sleep", "done"}

\* C3 (as claimed): once a link's task has gone through its extracted
\* records, every one of them is stored for that link, whatever other links
\* have stored.
C3_PerLinkDedup ==
  \A l \in DOMAIN links :
    LoopDone(task[l]) =>
      \A i \in 1..Len(task[l].ads) : Conflicts(ads, l, task[l].ads[i].external_id)

\* A timer tick while a cycle runs changes nothing.
SkippedTickIsNoOp == (isRunning /\ Tick) => UNCHANGED vars

\* A cycle begins only in the step of start() or of a timer tick.
CycleBeginsOnTick == (inFlight' > inFlight) => (Start \/ Tick)

\* C8: at most one runParsing invocation is in flight, isRunning tells
\* whether one is, a tick during a cycle changes no state, and a cycle
\* begins only in the step of a tick (or of start()).
C8_SingleCycle ==
  /\ [](inFlight <= 1 /\ (isRunning <=> inFlight = 1) /\ (isRunning <=> cyclePc # "idle"))
  /\ [][SkippedTickIsNoOp /\ CycleBeginsOnTick]_vars

\* C8 witness: a second cycle is running (a tick at this point is skipped).
C8_Witness == isRunning /\ now >= 2 /\ cyclePc = "batch"

AtRest(t) == t.pc \in {"none", "done"}

\* The task records are those of the cycle numbered `now` (a cycle that has
\* begun but not yet loaded its links still shows the previous cycle's).
TasksOfThisCycle == cyclePc # "getActiveLinks"

\* C4: a link is inactive only after five or more consecutive failed
\* extractions, and once the task of its fifth consecutive failure has
\* finished the link is inactive.
C4_FiveFailuresDeactivate ==
  \A l \in DOMAIN links :
    /\ ~links[l].is_active => streak[l] >= ErrorThreshold
    /\ (AtRest(task[l]) /\ streak[l] >= ErrorThreshold) => ~links[l].is_active

\* C4 witness: a link that started at counter 0 failed in each of the first
\* five cycles and is inactive.
C4_Witness ==
  \E l \in DOMAIN links :
    now = ErrorThreshold /\ streak[l] = ErrorThreshold /\ ~links[l].is_active

\* C5: when the task of a successful extraction has finished, the link's
\* counter is 0 and its last-polled time is the current cycle's; and at rest
\* the counter equals the number of consecutive failures since the last
\* success.
C5_SuccessResets ==
  \A l \in DOMAIN links :
    /\ (TasksOfThisCycle /\ task[l].pc = "done" /\ task[l].result = "ok")
         => links[l].error_count = 0 /\ links[l].last_parsed_at = now
    /\ AtRest(task[l]) => links[l].error_count = streak[l]

\* C5 witness: the link's only success since cycle 5 was in cycle 5, the
\* four cycles after it failed, and in cycle 9 the link is still active with
\* counter 4.
C5_Witness ==
  \E l \in DOMAIN links :
    /\ now = 2 * ErrorThreshold - 1 /\ task[l].pc = "done"
    /\ streak[l] = ErrorThreshold - 1
    /\ links[l].error_count = ErrorThreshold - 1
    /\ links[l].last_parsed_at = ErrorThreshold
    /\ links[l].is_active

\* C6: an empty listing makes parseUrl resolve: the task never enters the
\* failure-accounting path, and when it has finished the link is active with
\* counter 0 and this cycle's last-polled time.
C6_EmptyIsSuccess ==
  \A l \in DOMAIN links :
    task[l].answer = Listing(<<>>) =>
      /\ task[l].result = "ok"
      /\ streak[l] = 0
      /\ (TasksOfThisCycle /\ task[l].pc = "done") =>
           /\ links[l].is_active
           /\ links[l].error_count = 0
           /\ links[l].last_parsed_at = now

\* C6 witness: a link with four failures behind it answered with an empty
\* listing and its task has finished.
C6_Witness ==
  \E l \in DOMAIN links :
    /\ task[l].answer = Listing(<<>>) /\ task[l].pc = "done"
    /\ task[l].link.error_count = ErrorThreshold - 1

CycleOver == started /\ cyclePc = "idle"

\* C7: when a cycle is over, every link it loaded has had its task run to
\* the end, and every link whose extraction succeeded has this cycle's
\* last-polled time and all its extracted records stored, whatever happened
\* to the other links.
C7_FailureIsolated ==
  CycleOver =>
    \A j \in 1..Len(cycleLinks) :
      LET t == task[cycleLinks[j].id]
      IN /\ t.pc = "done"
         /\ t.result # "none"
         /\ t.result = "ok" =>
              /\ links[t.link.id].last_parsed_at = now
              /\ \A i \in 1..Len(t.ads) : ~isNewAd(ads, t.ads[i].external_id)

\* C7 witness: the cycle is over, link 1 failed, and a link of the same
\* batch and a link of a later batch have their new records stored.
C7_Witness ==
  /\ CycleOver
  /\ task[1].result = "failed"
  /\ \E l \in BatchIds(cycleLinks, 0) \ {1} : Rows(ads, l, "b") # {}
  /\ \E l \in DOMAIN links :
       l \notin BatchIds(cycleLinks, 0) /\ Rows(ads, l, ToString(l)) # {}

RECURSIVE SumRequests(_)
SumRequests(S) ==
  IF S = {} THEN 0
  ELSE LET l == CHOOSE x \in S : TRUE
       IN RequestsOpen(task[l].link.platform) + SumRequests(S \ {l})

\* Requests to source sites that are open: those of the awaited parseUrl calls.
OpenRequests == SumRequests({l \in DOMAIN links : task[l].pc = "parseUrl"})

\* C9 (as claimed): never more than batchSize requests to source sites are
\* open at once.
C9_ConnectionsBounded == OpenRequests <= batchSize

\* Records of the link's task (new in this cycle) that were handed to
\* sendNotification.
Delivered(l) ==
  {r \in Range(task[l].newAds) :
     BagIn([link_id |-> r.link_id, external_id |-> r.external_id], notified)}

LoadFailureAbortsCycle ==
  GetActiveLinksFails =>
    /\ UNCHANGED <<links, ads, notified, task>>
    /\ \A l \in DOMAIN links : AtRest(task'[l])
    /\ ~isRunning' /\ cyclePc' = "idle" /\ inFlight' = 0

\* A timer tick that finds no cycle running begins one at the load step.
IdleTickLoads == (Tick /\ ~isRunning) => (isRunning' /\ cyclePc' = "getActiveLinks")

\* C11: when loading the active links fails, no extraction is dispatched,
\* no link row, ad row or notification changes, the scheduler is idle
\* again, and the next timer tick begins a cycle at the load step; no
\* extraction is ever awaited while the scheduler is idle.
C11_LoadFailureAborts ==
  /\ [][LoadFailureAbortsCycle /\ IdleTickLoads]_vars
  /\ [](cyclePc \in {"idle", "getActiveLinks"} => \A l \in DOMAIN links : AtRest(task[l]))

\* C11 witness: the second cycle is extracting link 2 while that link's row
\* is as registered and no ad is stored: nothing of the first cycle ran, its
\* load failed, and the tick after it loaded afresh.
C11_Witness ==
  /\ now = 2 /\ cyclePc = "batch" /\ task[2].pc = "parseUrl"
  /\ links[2].error_count = 0 /\ links[2].last_parsed_at = 0
  /\ ads = EmptyBag

\* C12 (as claimed): an extraction whose every network call failed is never
\* taken for a successful poll.
C12_NetworkFailureIsFailedPoll ==
  \A l \in DOMAIN links : task[l].answer = NetError => task[l].result = "failed"

\* From the step in which a link is inactive on: its row does not change,
\* no extraction of it is awaited, and no ad row or notification of it is
\* added.
InactiveLinkUntouched ==
  \A l \in DOMAIN links :
    ~links[l].is_active =>
      /\ links'[l] = links[l]
      /\ AtRest(task'[l])
      /\ \A r \in BagToSet(ads') : r.link_id = l => CopiesIn(r, ads') = CopiesIn(r, ads)
      /\ \A x \in BagToSet(notified') :
           x.link_id = l => CopiesIn(x, notified') = CopiesIn(x, notified)

\* C15: once a link is inactive the scheduler never extracts it again,
\* never changes its row (active flag, failure counter, last-polled time)
\* and never stores or notifies an ad for it.
C15_InactiveStaysOut == [][InactiveLinkUntouched]_vars

\* C15 witness: a cycle after the one that deactivated a link is extracting
\* another link while the inactive one has no task.
C15_Witness ==
  \E l \in DOMAIN links : \E m \in DOMAIN links :
    /\ ~links[l].is_active /\ now > ErrorThreshold
    /\ task[l].pc = "none" /\ task[m].pc = "parseUrl"

FetchSettled == fetch.pc \in {"returned", "thrown"}

AllFailed(gets) == \A j \in 1..Len(gets) : ~gets[j].ok

\* C13: fetchWithRetry makes at most `retries` requests; when it returns,
\* the last request is the only successful one and its body is the result;
\* when `retries` requests have failed it has thrown the error of the last
\* one; a settled call makes no further request; and every call settles.
C13_FetchWithRetry ==
  /\ [](/\ Len(fetch.gets) <= fetch.retries
        /\ fetch.pc = "returned" =>
             /\ fetch.gets # <<>>
             /\ fetch.gets[Len(fetch.gets)].ok
             /\ AllFailed(SubSeq(fetch.gets, 1, Len(fetch.gets) - 1))
             /\ fetch.settled = [kind |-> "return",
                                 value |-> fetch.gets[Len(fetch.gets)].value]
        /\ (fetch.retries > 0 /\ Len(fetch.gets) = fetch.retries /\ AllFailed(fetch.gets)) =>
             /\ fetch.pc = "thrown"
             /\ fetch.settled = [kind |-> "throw",
                                 value |-> fetch.gets[fetch.retries].value])
  /\ [][FetchSettled => fetch' = fetch]_vars
  /\ (fetch.pc = "get" ~> FetchSettled)

\* C13 witness: a call with the default three attempts has thrown after
\* three failed requests, the first and the last with different errors.
C13_Witness ==
  /\ fetch.retries = DefaultRetries /\ fetch.pc = "thrown"
  /\ Len(fetch.gets) = DefaultRetries
  /\ fetch.gets[1].value # fetch.gets[DefaultRetries].value
  /\ fetch.settled.value = fetch.gets[DefaultRetries].value

\* C14 (as claimed): with the default three attempts, each failed attempt
\* i = 0, 1, 2 is followed by a wait of 2^i seconds.
C14_BackoffAfterEveryFailure ==
  fetch.retries = DefaultRetries =>
    \A i \in 0..(DefaultRetries - 1) :
      (Len(fetch.gets) > i /\ ~fetch.gets[i + 1].ok) =>
        (Len(fetch.sleeps) > i /\ fetch.sleeps[i + 1] = (2 ^ i) * 1000)

\* C14 (amended): a failed attempt i is followed by a wait of 2^i seconds
\* exactly when another attempt follows (i < retries - 1); the failure of
\* the last attempt is followed by no wait, so a call makes at most
\* retries - 1 waits (1 s and 2 s with the default three attempts).
C14_BackoffBetweenAttempts ==
  /\ \A i \in 0..(Len(fetch.gets) - 1) :
       ~fetch.gets[i + 1].ok =>
         IF i < fetch.retries - 1
         THEN Len(fetch.sleeps) > i /\ fetch.sleeps[i + 1] = (2 ^ i) * 1000
         ELSE Len(fetch.sleeps) = i
  /\ Len(fetch.sleeps) <= Len(fetch.gets)
  /\ fetch.retries > 0 => Len(fetch.sleeps) <= fetch.retries - 1

\* C14 witness: the default call has thrown after three failed attempts and
\* two waits, of 1 s and 2 s.
C14_Witness ==
  /\ fetch.retries = DefaultRetries /\ fetch.pc = "thrown"
  /\ Len(fetch.gets) = DefaultRetries
  /\ fetch.sleeps = <<1000, 2000>>

\* A single-item permalink on the platform's own host.
IsPermalink(platform, u) ==
  IF platform = "kufar"
  THEN u.hostname \in {"www.kufar.by", "re.kufar.by"} /\ u.pathname = "/item/231456789"
  ELSE \/ u.hostname = "ab.onliner.by" /\ u.pathname = "/bmw/x5/4455667"
       \/ u.hostname = "baraholka.onliner.by" /\ u.pathname = "/products/98765"
       \/ u.hostname = "r.onliner.by" /\ u.pathname = "/ak/55512"

\* A search page of the platform.
IsSearchShape(platform, u) ==
  IF platform = "kufar"
  THEN /\ u.hostname \in {"www.kufar.by", "re.kufar.by"}
       /\ u.pathname \in {"/l/mobilnye-telefony", "/l/r~minsk/kvartiru", "/re/brest/snyat"}
  ELSE /\ u.hostname \in {"ab.onliner.by", "baraholka.onliner.by", "r.onliner.by"}
       /\ ~IsPermalink("onliner", u)

\* C19 (as claimed): the validateUrl of each registered extractor returns
\* false for a single-item permalink on its own host, and true only for
\* search pages.
C19_PermalinkRejected ==
  verdict.done =>
    \A platform \in {"kufar", "onliner"} :
      /\ IsPermalink(platform, url) => ~verdict[platform]
      /\ verdict[platform] => IsSearchShape(platform, url)

\* The region codes as the Kufar API numbers them.
RegionTable ==
  [minsk_gorod |-> "7", minskaja_oblast |-> "5", brestskaja_oblast |-> "1",
   vitebskaja_oblast |-> "6", gomelskaja_oblast |-> "2",
   grodnenskaja_oblast |-> "3", mogilevskaja_oblast |-> "4"]

\* C20: for a gtsy value that names one of the seven provinces the resolved
\* region code is the table's, whatever the path says; a Minsk-city hint
\* never resolves to 5.
C20_RegionTable ==
  rgn # "none" =>
    \A p \in Provinces :
      url.gtsy \in HintsNaming(p) =>
        /\ rgn = RegionTable[p]
        /\ p = "minsk_gorod" => rgn # "5"

\* C20 witness: the Vitebsk province was resolved to 6 although the path
\* names a city of the Brest province.
C20_Witness ==
  /\ rgn = "6"
  /\ url.gtsy = "country-belarus~province-vitebskaja_oblast~locality-lida"
  /\ url.pathname = "/re/brest/snyat"

\* Requests of the user admitted in the window [from, from + windowMs).
AllowedInWindow(u, from) ==
  Cardinality({j \in 1..Len(allowedLog[u]) :
                 from <= allowedLog[u][j] /\ allowedLog[u][j] < from + windowMs})

\* C17: for every user, every window of windowMs (taken from any admitted
\* request on) holds at most maxRequests admitted requests, and a handler
\* ran exactly for the admitted ones.
C17_RateLimit ==
  \A u \in DOMAIN allowedLog :
    /\ \A j \in 1..Len(allowedLog[u]) :
         AllowedInWindow(u, allowedLog[u][j]) <= maxRequests
    /\ handlersRun[u].run = Len(allowedLog[u])

\* C17 witness: at the last millisecond of the window user 1 has ten
\* admitted requests and one refused, while user 2 was admitted just now.
C17_Witness ==
  /\ clock = windowMs - 1
  /\ Len(allowedLog[1]) = maxRequests /\ handlersRun[1].refused = 1
  /\ allowedLog[1][1] = 0
  /\ allowedLog[2] # <<>> /\ allowedLog[2][Len(allowedLog[2])] = clock

\* C16 (as claimed): no user ever owns more than LinkLimit links.
C16_AtMostTenLinks ==
  \A u \in BotUsers : getUserLinksCount(links, u) <= LinkLimit

\* Links created by the handlers (the ids from the first free one on).
CreatedLinks == {id \in DOMAIN links : id >= LinkLimit}

\* C18: every link the handlers created is for a user and URL whose trial
\* extraction resolved with at least one record, and so is every URL kept
\* for confirmation.
C18_TrialBeforeLink ==
  /\ \A id \in CreatedLinks :
       [user |-> links[id].user_id, url |-> links[id].url] \in trialOk
  /\ \A u \in BotUsers :
       pendingLinks[u] # NotAUrl => [user |-> u, url |-> pendingLinks[u]] \in trialOk

\* C18 witness: a link was created by confirming a preview, after an
\* add-link trial of another URL had failed and created nothing.
C18_Witness ==
  /\ \E id \in CreatedLinks : links[id].url = OnlinerSearch
  /\ \A id \in CreatedLinks : links[id].url # KufarSearch
  /\ [user |-> 1, url |-> KufarSearch] \notin trialOk
  /\ userStates[1] = "none" /\ trials = {}
  /\ interactions = 4

\* The claimed match of an item's location with a city's name variants:
\* case-insensitive, as a substring in either direction, never for a
\* missing or empty location.
MatchesCity(city, item) ==
  /\ item.area.present /\ item.area.vl # ""
  /\ \E i \in DOMAIN TargetCityVariants(city) :
       \/ Includes(ToLowerCase(item.area.vl), TargetCityVariants(city)[i])
       \/ Includes(TargetCityVariants(city)[i], ToLowerCase(item.area.vl))

\* C21 (as claimed): the city filter's output is exactly the items whose
\* location matches a variant of the city, in either direction; items
\* without a location or with an empty one are left out.
C21_CityFilterExact ==
  filtered.done =>
    /\ filtered.ads = SelectSeq(merged.items, LAMBDA item : MatchesCity(merged.city, item))
    /\ filtered.bothWays = SelectSeq(merged.items, LAMBDA item : MatchesCity(merged.city, item))

\* The value at the end of path, undefined when a level is missing.
RECURSIVE ValueAt(_, _)
ValueAt(x, path) ==
  IF path = <<>> \/ x.t = "undefined" THEN x
  ELSE ValueAt(Prop(x, Head(path)), Tail(path))

\* The list an extractor looks for in the page.
ListField(e) == IF page.embedded THEN ValueAt(page.data, ListPath[e]) ELSE JUndefined

\* C22 (as claimed): when the embedded object or its ad-list field is
\* absent, at whatever level, every extractor resolves with zero records.
C22_AbsentIsEmpty ==
  extracted.done =>
    \A e \in DOMAIN ListPath :
      ListField(e).t = "undefined" => extracted[e] = Resolved(<<>>)

\* C23 (as claimed): when the ad-list field is present but is not a list,
\* every extractor fails instead of resolving.
C23_WrongShapeFails ==
  extracted.done =>
    \A e \in DOMAIN ListPath :
      ListField(e).t \in {"object", "string", "number"} => ~extracted[e].ok

\* The records of adsToNotify that parseLink has handed to sendNotification.
Attempted(t) ==
  {r \in Range(t.adsToNotify) :
     BagIn([link_id |-> r.link_id, external_id |-> r.external_id], notified)}

\* C24: a delivery that fails does not send the task to the failure
\* accounting and does not touch the failure counter; when the task ends
\* every selected record has been attempted; the cycle ends only when its
\* tasks have ended.
C24_DeliveryFailureNonFatal ==
  /\ \A l \in DOMAIN links :
       LET t == task[l]
       IN t.result = "ok" =>
            /\ t.pc \notin {"incrementErrorCount", "getUserLinks", "markLinkInactive"}
            /\ links[l].error_count <= t.link.error_count /\ links[l].is_active
            /\ t.pc = "done" => Attempted(t) = Range(t.adsToNotify)
  /\ CycleOver => \A l \in DOMAIN links : AtRest(task[l])

\* C24 witness: the owner has blocked the bot, all five selected records
\* were attempted, none arrived, and the link is as a successful poll
\* leaves it.
C24_Witness ==
  /\ 1 \in blocked
  /\ CycleOver
  /\ task[1].pc = "done" /\ task[1].result = "ok"
  /\ Len(task[1].adsToNotify) = NotifyCap
  /\ Cardinality(Attempted(task[1])) = NotifyCap
  /\ delivered = EmptyBag
  /\ links[1].error_count = 0 /\ links[1].is_active

\* The stored rows no message has arrived for.
Undelivered ==
  {r \in BagToSet(ads) :
     ~ \E d \in BagToSet(delivered) :
         d.link_id = r.link_id /\ d.external_id = r.external_id}

\* C28: a message arrives only in the cycle in which its row was inserted,
\* so a row left without a message by its cycle never gets one.
C28_NeverDeliveredLater ==
  \A d \in BagToSet(delivered) : \A r \in BagToSet(ads) :
    (r.link_id = d.link_id /\ r.external_id = d.external_id) => r.created_at = d.at

\* C28 witness: a later cycle has ended in which the site listed again a
\* record whose row an earlier cycle inserted and left without a message,
\* though its owner has not blocked the bot.
C28_Witness ==
  /\ CycleOver
  /\ \E r \in Undelivered :
       /\ r.created_at < now
       /\ links[r.link_id].user_id \notin blocked
       /\ task[r.link_id].pc = "done"
       /\ \E i \in 1..Len(task[r.link_id].ads) :
            task[r.link_id].ads[i].external_id = r.external_id

\* C25 (as claimed): when the cycle has ended and the scheduler is idle,
\* none of the cycle's per-link tasks is still in flight.
C25_IdleMeansNoTaskInFlight ==
  (CycleOver /\ ~isRunning) => \A l \in DOMAIN links : AtRest(task[l])

\* C26 (as claimed): a task whose extraction succeeded never enters the
\* failure accounting, and the link's failure counter does not grow.
C26_OnlyExtractionFailureCounts ==
  \A l \in DOMAIN links :
    task[l].result = "ok" =>
      /\ task[l].pc \notin {"incrementErrorCount", "getUserLinks", "markLinkInactive"}
      /\ links[l].error_count <= task[l].link.error_count

\* The links that have a row for the external id, and those whose user was
\* sent it.
StoredFor(e) == {r.link_id : r \in {x \in BagToSet(ads) : x.external_id = e}}

NotifiedFor(e) == {x.link_id : x \in {y \in BagToSet(notified) : y.external_id = e}}

\* The first cycle is over and both links of its batch listed the record e.
BothListed(e) ==
  /\ CycleOver /\ now = 1
  /\ \A l \in DOMAIN links :
       task[l].result = "ok" /\ \E i \in 1..Len(task[l].ads) : task[l].ads[i].external_id = e

\* C27 (as claimed): what a cycle stores and announces does not depend on
\* how the tasks of a batch interleave: when both links of the batch listed
\* the same record, it is stored and announced for one link, as the lookup
\* over the whole table gives when one task runs after the other.
C27_InterleavingIndependent ==
  BothListed("a") =>
    Cardinality(StoredFor("a")) = 1 /\ Cardinality(NotifiedFor("a")) = 1

\* The outcome of the tasks running one after the other is reachable too.
C27_OneRowOutcome ==
  BothListed("a") /\ Cardinality(StoredFor("a")) = 1 /\ Cardinality(NotifiedFor("a")) = 1

\* What a failed poll has done to its own link so far, against the row the
\* cycle loaded: the counter is one higher once incrementErrorCount has run,
\* the last-polled time is the same, no row of the link was stored in this
\* cycle, and the link is inactive exactly when the task has ended with the
\* counter at the threshold or above.
FailedPollEffect(l) ==
  LET t == task[l]
      counted == t.pc \in {"getUserLinks", "markLinkInactive", "done"}
  IN /\ links[l].error_count = t.link.error_count + (IF counted THEN 1 ELSE 0)
     /\ links[l].last_parsed_at = t.link.last_parsed_at
     /\ \A r \in BagToSet(ads) : r.link_id = l => r.created_at < now
     /\ links[l].is_active = ~(t.pc = "done" /\ links[l].error_count >= ErrorThreshold)

\* A step of a failed poll of l changes no ad row and no other link's row.
FailedPollFrame ==
  \A l \in DOMAIN links :
    (task'[l] # task[l] /\ task'[l].result = "failed") =>
      /\ ads' = ads
      /\ \A m \in DOMAIN links \ {l} : links'[m] = links[m]

\* C29: a failed poll of a link raises that link's failure counter by
\* exactly one, leaves its last-polled time, its stored ads and every other
\* link's row and ads as they were, and makes the link inactive only when
\* the raised counter is at least five.
C29_FailedPollFrame ==
  /\ [](\A l \in DOMAIN links : task[l].result = "failed" => FailedPollEffect(l))
  /\ [][FailedPollFrame]_vars

\* C29 witness: a failed poll has ended and has made its link inactive with
\* the counter at the threshold, while the user's other link is active with
\* a different counter.
C29_Witness ==
  \E l \in DOMAIN links : \E m \in DOMAIN links \ {l} :
    /\ task[l].result = "failed" /\ task[l].pc = "done"
    /\ links[l].error_count = ErrorThreshold /\ ~links[l].is_active
    /\ links[m].user_id = links[l].user_id
    /\ links[m].is_active /\ links[m].error_count < ErrorThreshold - 1

\* While the batch loop runs: the tasks of the batches before the current
\* one have ended, those of the batches after it have not begun; the loop
\* pauses only with every task of the current batch ended and a batch still
\* to come; the cycle ends only after the last batch.
BatchesInOrder ==
  /\ cyclePc \in {"batch", "sleep"} =>
       \A j \in 1..Len(cycleLinks) :
         /\ j <= batchStart => task[cycleLinks[j].id].pc = "done"
         /\ j > batchStart + batchSize => task[cycleLinks[j].id].pc = "none"
  /\ cyclePc = "sleep" =>
       /\ batchStart + batchSize < Len(cycleLinks)
       /\ \A id \in BatchIds(cycleLinks, batchStart) : task[id].pc = "done"
  /\ CycleOver =>
       /\ batchStart + batchSize >= Len(cycleLinks)
       /\ \A j \in 1..Len(cycleLinks) : task[cycleLinks[j].id].pc = "done"

\* A batch other than the first is dispatched only out of the pause, and the
\* last batch is followed by the end of the cycle, not by a pause.
PauseBetweenBatches ==
  /\ (batchStart' # batchStart /\ batchStart' > 0) =>
       (cyclePc = "sleep" /\ batchStart' = batchStart + batchSize)
  /\ (cyclePc = "batch" /\ cyclePc' # "batch") =>
       cyclePc' = (IF batchStart + batchSize < Len(cycleLinks) THEN "sleep" ELSE "idle")

\* C30: no task of a later batch begins before every task of the batch
\* before it has ended, failed or not; a pause lies between two consecutive
\* batches and none follows the last batch.
C30_BatchesSequential == []BatchesInOrder /\ [][PauseBetweenBatches]_vars

\* C30 witness: the second batch is running after a first batch in which one
\* link's poll failed and another's succeeded.
C30_Witness ==
  /\ cyclePc = "batch" /\ batchStart = batchSize
  /\ \E id \in BatchIds(cycleLinks, batchStart) : task[id].pc \notin {"none", "done"}
  /\ \E l, m \in BatchIds(cycleLinks, 0) :
       task[l].result = "failed" /\ task[m].result = "ok"

\* The batch the loop is at is the slice of the loaded links at a multiple
\* of the batch size, of ten links or, when it is the last, of what is left;
\* a loaded link has a task exactly when its batch has been dispatched, and
\* when the cycle is over every loaded link's task has run.
SlicesPartition ==
  /\ cyclePc \in {"batch", "sleep"} =>
       /\ batchStart % batchSize = 0 /\ batchStart < Len(cycleLinks)
       /\ Cardinality(BatchIds(cycleLinks, batchStart))
            = Min(batchSize, Len(cycleLinks) - batchStart)
       /\ \A j \in 1..Len(cycleLinks) :
            (task[cycleLinks[j].id].pc # "none") <=> (j <= batchStart + batchSize)
  /\ CycleOver =>
       /\ \A l \in DOMAIN links :
            links[l].is_active => \E j \in 1..Len(cycleLinks) : cycleLinks[j].id = l
       /\ \A j \in 1..Len(cycleLinks) : task[cycleLinks[j].id].pc = "done"
       /\ \A j, k \in 1..Len(cycleLinks) : cycleLinks[j].id = cycleLinks[k].id => j = k

\* A task is begun for a link only by the dispatch of the one batch that
\* holds the link: never again once the link has a task in this cycle.
DispatchedOnce ==
  \A l \in DOMAIN links :
    (task[l].pc # "none" /\ cyclePc # "getActiveLinks") =>
      /\ task'[l].link = task[l].link
      /\ task[l].pc = "done" => task'[l] = task[l]

\* C31: in a cycle every loaded link is handed to a task exactly once,
\* whether no link, a full batch or a batch and a smaller last batch were
\* loaded; the batches are consecutive slices of at most ten links.
C31_EveryLinkOnce == []SlicesPartition /\ [][DispatchedOnce]_vars

\* C31 witnesses: a cycle is over that loaded a full batch and one link
\* more; one that loaded exactly one batch; one that loaded nothing.
C31_Witness ==
  /\ CycleOver /\ Len(cycleLinks) = batchSize + 1
  /\ \A j \in 1..Len(cycleLinks) : task[cycleLinks[j].id].pc = "done"

C31_WitnessFullBatch ==
  CycleOver /\ Len(cycleLinks) = batchSize /\ DOMAIN links = 1..batchSize

C31_WitnessNoLinks == CycleOver /\ now = 1 /\ DOMAIN links = {}

\* C32: every cycle that has begun ends and leaves the scheduler idle,
\* whether its links were polled, some of them failed, or loading them
\* failed, as long as every awaited call settles; so a timer tick is not
\* skipped for ever, and the cycles the timer allows are all begun.
C32_CycleEnds ==
  /\ isRunning ~> (~isRunning /\ cyclePc = "idle" /\ inFlight = 0)
  /\ started ~> (now = maxCycles /\ ~isRunning)

\* C32 witness: the last cycle is over with one link's poll failed and the
\* other's successful.
C32_Witness ==
  /\ CycleOver /\ now = maxCycles
  /\ \E l, m \in DOMAIN links : task[l].result = "failed" /\ task[m].result = "ok"

HandedOver(t) ==
  IF t.pc = "sendNotification" THEN t.n - 1
  ELSE IF t.pc = "sleep" THEN t.n
  ELSE Len(t.adsToNotify)

\* The records selected for delivery are in non-decreasing order of their
\* publication time (0: none), and those handed over so far are the first
\* ones of that order.
DeliveredOldestFirst ==
  \A l \in DOMAIN links :
    LET t == task[l]
    IN (t.result = "ok" /\ t.pc \in {"sendNotification", "sleep", "done"}) =>
         /\ \A i, j \in 1..Len(t.adsToNotify) :
              i < j => t.adsToNotify[i].published_at <= t.adsToNotify[j].published_at
         /\ \A i \in 1..Len(t.adsToNotify) :
              BagIn([link_id |-> l, external_id |-> t.adsToNotify[i].external_id], notified)
                <=> i <= HandedOver(t)

\* A notification is handed over only by the task's delivery step, which is
\* followed by the pause; the next delivery begins only out of the pause.
DeliveriesSequential ==
  \A l \in DOMAIN links :
    /\ (\E x \in BagToSet(notified') : x.link_id = l /\ ~BagIn(x, notified)) =>
         (task[l].pc = "sendNotification" /\ task'[l].pc = "sleep")
    /\ (task'[l].pc = "sendNotification" /\ task'[l].n > 1 /\ task'[l] # task[l]) =>
         (task[l].pc = "sleep" /\ task'[l].n = task[l].n + 1)

\* C34: within one link and one cycle the notifications are delivered
\* oldest first by publication time, a record without one counting as the
\* oldest, and one after the other, each after the previous delivery and
\* its pause.
C34_OldestFirst == []DeliveredOldestFirst /\ [][DeliveriesSequential]_vars

\* C34 witness: a task has delivered two or more records of which the first
\* has no publication time and was listed after a record that has one.
C34_Witness ==
  \E l \in DOMAIN links :
    LET t == task[l]
    IN /\ t.pc = "done" /\ Len(t.adsToNotify) >= 2
       /\ t.adsToNotify[1].published_at = 0
       /\ t.ads[1].published_at > 0
       /\ \A i \in 1..Len(t.adsToNotify) :
            BagIn([link_id |-> l, external_id |-> t.adsToNotify[i].external_id], notified)

\* Both processes have polled the link, both found the record e new, and
\* both have ended their parseLink.
BothDetectedNew(e) ==
  /\ peer.pc = "done" /\ task[PeerLink].pc = "done" /\ task[PeerLink].result = "ok"
  /\ \E i \in 1..Len(peer.ads) : peer.ads[i].external_id = e
  /\ peer.ad # NotCalled /\ peer.ad.external_id \in {e, NoRow.external_id}
  /\ task[PeerLink].ad # NotCalled
  /\ task[PeerLink].ad.external_id \in {e, NoRow.external_id}

DeliveredByFirst(e) ==
  \E x \in BagToSet(delivered) : x.link_id = PeerLink /\ x.external_id = e

DeliveredBySecond(e) == peer.pc # "none" /\ e \in peer.sent

\* C35 (as claimed): a record that both processes found new is delivered by
\* both of them.
C35_BothNotify ==
  \A e \in {"a", "b"} :
    BothDetectedNew(e) => (DeliveredByFirst(e) /\ DeliveredBySecond(e))

\* C35 (amended): the record is stored once and delivered by one process
\* only, the one whose insert stored the row, also when both found it new.
C35_OneNotifies ==
  \A e \in {"a", "b"} :
    /\ \A l \in DOMAIN links : RowCount(ads, l, e) <= 1
    /\ ~(DeliveredBySecond(e) /\ DeliveredByFirst(e))
    /\ BothDetectedNew(e) =>
         /\ DeliveredByFirst(e) <=> task[PeerLink].ad # NoRow
         /\ DeliveredBySecond(e) <=> peer.ad # NoRow
         /\ DeliveredByFirst(e) \/ DeliveredBySecond(e)

\* C35 witness: both processes found the record new, the second one's
\* insert met the first one's row, and only the first delivered it.
C35_Witness ==
  /\ BothDetectedNew("a")
  /\ peer.ad = NoRow /\ task[PeerLink].ad # NoRow
  /\ DeliveredByFirst("a") /\ ~DeliveredBySecond("a")

\* C36 (as claimed): no user owns two links with the same URL.
C36_NoDuplicateUrl ==
  \A i, j \in DOMAIN links :
    (links[i].user_id = links[j].user_id /\ links[i].url = links[j].url) => i = j

\* Once stop() has been called no cycle begins in that process.
NoCycleAfterStop == shutdown.stopped => inFlight' <= inFlight

\* Every (link, external id) has at most one row and at most one delivered
\* message.
StoredAndDeliveredOnce ==
  /\ \A r \in BagToSet(ads) : RowCount(ads, r.link_id, r.external_id) = 1
  /\ \A d \in BagToSet(delivered) :
       /\ CopiesIn(d, delivered) = 1
       /\ \A e \in BagToSet(delivered) :
            (e.link_id = d.link_id /\ e.external_id = d.external_id) => e = d

\* C37: after stop() the timer begins no further cycle; whether the cycle
\* in flight ran on or was cut off by the exit, after the restart every
\* record is stored at most once for its link and no record that was
\* delivered is delivered again.
C37_StopAndRestart == [][NoCycleAfterStop]_vars /\ []StoredAndDeliveredOnce

\* C37 witness: the process was stopped and started again, and the new
\* process has finished a cycle in which a site listed a record that the
\* old process had delivered.
C37_Witness ==
  /\ shutdown.exits >= 1 /\ CycleOver
  /\ \E d \in BagToSet(delivered) :
       /\ d.at < now
       /\ task[d.link_id].pc = "done"
       /\ \E i \in 1..Len(task[d.link_id].ads) :
            task[d.link_id].ads[i].external_id = d.external_id

\* A cycle was in flight when stop() was called: a task of it is between
\* storing a record and delivering it.
C37_StoppedInFlight ==
  /\ shutdown.stopped /\ isRunning
  /\ \E l \in DOMAIN links : task[l].pc \in {"getUserById", "sendNotification", "sleep"}

\* The gtsy value names one of the seven provinces.
HintRecognised(u) == \E p \in Provinces : Includes(u.gtsy, "province-" \o p)

\* The positions of the path parts that are keys of the city table.
KnownTokens(u) ==
  {i \in 1..Len(PathParts(u.pathname)) : PathParts(u.pathname)[i] \in DOMAIN CITY_TO_REGION_ID}

C39_WitnessNone ==
  rgn = "" /\ url.gtsy = "country-belarus" /\ url.pathname = "/l/mobilnye-telefony"

\* A hint for one province over a path naming a city of another.
C39_WitnessHint ==
  /\ rgn = "4" /\ url.gtsy = "province-mogilevskaja_oblast"
  /\ url.pathname = "/re/brest/snyat"


\* C40: when the URL of a search names no city (a category alone, or a
\* province), no city filter runs: what parseUrl returns is the merged
\* result set, item for item.
NamesNoCity(u) ==
  /\ ~Includes(u.gtsy, "locality-")
  /\ \A i \in DOMAIN PathParts(u.pathname) :
       RemoveFirst(PathParts(u.pathname)[i], "r~") \notin DOMAIN CITY_VARIANTS

C40_NoCityNoFilter ==
  (filtered.done /\ NamesNoCity(url))
    => (filtered.ads = merged.items /\ filtered.bothWays = merged.items)

\* The same for the parser the factory registers, taken alone.
C40_NoCityNoFilterRegistered ==
  (filtered.done /\ NamesNoCity(url)) => filtered.ads = merged.items

\* A category-only search whose merged result set has an item.
C40_CategoryOnly ==
  /\ filtered.done
  /\ url.pathname = "/l/mobilnye-telefony" /\ url.gtsy = ""
  /\ merged.items # <<>>

\* A search for a town, filtered by both versions.
C40_TownFiltered ==
  /\ filtered.done
  /\ url.pathname = "/l/lida/kvartiru" /\ url.gtsy = ""
  /\ filtered.ads # merged.items /\ filtered.bothWays # merged.items


\* C38: a link whose platform has no registered extractor is skipped in
\* every cycle: no step changes its row (failure counter, active flag,
\* last-polled time), its task only ever ends as skipped, and no ad is
\* stored or announced for it; so it is never deactivated.
NoParser(l) == getParser(links[l].platform) = "null"

SkippedRowKept ==
  \A l \in DOMAIN links : NoParser(l) => links'[l] = links[l]

SkippedLeavesNothing ==
  \A l \in DOMAIN links :
    NoParser(l) =>
      /\ links[l].is_active
      /\ task[l].pc \in {"none", "done"}
      /\ task[l].result \in {"none", "skipped"}
      /\ \A r \in BagToSet(ads) : r.link_id # l
      /\ \A r \in BagToSet(notified) : r.link_id # l
      /\ \A r \in BagToSet(delivered) : r.link_id # l

C38_NoParserSkipped == [][SkippedRowKept]_vars /\ []SkippedLeavesNothing

\* Both cycles are over, the link without an extractor was skipped in the
\* last one, and another link of the same owner was deactivated meanwhile.
C38_Witness ==
  /\ CycleOver /\ now = maxCycles /\ ~isRunning
  /\ \E l, m \in DOMAIN links :
       /\ NoParser(l) /\ task[l].result = "skipped"
       /\ links[m].user_id = links[l].user_id /\ ~links[m].is_active

====
